---- MODULE Spec2Model ----
(***************************************************************************)
(* Postmare: the store-and-forward overlay of PrimeLog's postoffice        *)
(* package.  The module models                                            *)
(*   - PostmareNode      (postoffice/node.py)      the pheromone table     *)
(*   - PostmareTransport (postoffice/transport.py) inbound connections     *)
(*   - PostmareMailbag   (postoffice/mailbag.py)   the delivery queue      *)
(*   - Bridge            (postoffice/bridge.py)    export packaging        *)
(* Each component has its own specification (SpecNode, SpecTransport,      *)
(* SpecMailbag, SpecBridge); the variables of the other components are     *)
(* left unchanged by its actions.                                          *)
(*                                                                         *)
(* Costs are whole hop counts (Python floats in the source); time is in    *)
(* seconds.                                                                *)
(***************************************************************************)
EXTENDS Integers, Sequences, FiniteSets, TLC

VARIABLES
    \* ---- PostmareNode ----
    self_fp,      \* PostmareNode.self_fp (constructor argument)
    table,        \* PostmareNode._table : target fp -> PheromoneEntry
    now,          \* time.time(), in seconds
    nodeCall,     \* the last PostmareNode call, the cost before it and what it returned
    lastReport,   \* the last (neighbor, value) reported since the last aging pass
    \* ---- PostmareTransport (inbound) ----
    handlers,     \* PostmareTransport._handlers : the registered message types
    lastConn,     \* the last inbound connection handled and its outcome
    \* ---- PostmareMailbag ----
    outbox,       \* the files in mailbag_dir
    states,       \* PostmareMailbag._states : the jobs, in insertion order
    stateDir,     \* mailbag_dir/.state : file_id -> persisted record
    sendLog,      \* the send_file calls of the last scan round, in order
    appReceived,  \* the files handed to the host's on_file_received callback
    mbCall,       \* the last mailbag / relay operation
    finished,     \* file ids whose job completed while the file stayed in the outbox
    staging,      \* the files in this node's staging location /tmp/postmare_incoming
    wall,         \* time.time() of the bridge's process, in ticks of a fraction of a second
    scanDirExists,\* whether the project's export directory exists
    scanDir,      \* the export directory: file name -> modification time
    marker,       \* the text of the project's marker file, or no file
    archives,     \* the archives in the mailbag directory: name -> member names
    keep_original,\* Bridge.keep_original
    bridgePc,     \* where the running deliver call stands: "idle", "collected", "packing"
    new_files,    \* the list deliver collected
    bridgeCall,   \* the step just taken; for a return of deliver, what it returned
    quiet,        \* no export file was written since deliver last returned
    lowWater,     \* the time at which the last deliver that packaged wrote its marker
    packedAt,     \* file name -> the modification time it had when last packaged
    \* ---- chunking and reassembly of one file ----
    fileBytes,    \* the bytes of the sender's file
    chunkSize,    \* the chunk size
    frags,        \* the fragment files at the receiver: index -> bytes
    assembled,    \* the receiver's output file, once written
    \* ---- PostmareTransport connection cache and the background loops ----
    running,      \* the _running flag of "mailbag", "node" and "transport"
    stopPc,       \* where Postmare.stop stands
    conn_cache,   \* _conn_cache: peer -> the cached connection, or none
    connState,    \* connection -> "unused", "active", "broken" or "closed"
    loopPc,       \* background loop -> "none", "sleep", "busy" or "exited"
    sendCall,     \* scan or broadcast thread -> its send call in progress
    \* ---- a network of nodes, each with its routing table ----
    net_table,    \* node -> the _table of its PostmareNode
    net_now,      \* the time
    \* ---- concurrent update() calls on one node ----
    upd_calls,    \* handler thread -> its update() call and where it stands
    upd_start,    \* the table before the first of the calls
    \* ---- the connection cache under the clock: send_file and the reaper ----
    reap_now,     \* the time
    reap_cache,   \* peer -> the _CachedConn cached for it (its last_used)
    reap_busy,    \* the peer send_file is transferring to, None between calls
    reap_call,    \* the step just taken
    \* ---- the scan thread of the mailbag ----
    scan_thread,  \* "running", or "dead" after an exception left _scan_loop
    \* ---- the receiving side of the mailbag: receive_fragment, _assemble ----
    rcv_total,    \* the number of fragments of the file being received
    rcv_heap,     \* the FragmentState objects created so far
    rcv_job,      \* the object under the file's key in _states, 0 for none
    rcv_frags,    \* the indices whose fragment file is on disk
    rcv_out,      \* the output file
    rcv_thr,      \* handler thread -> its receive_fragment call
    rcv_runs,     \* the runs of _assemble started so far
    rcv_arrived,  \* the indices handed to receive_fragment so far
    net_flight,   \* the heartbeats sent and not yet handled
    \* ---- connections through a jump peer (the via field) ----
    via_cache,    \* peer -> the connection cached for it, NoClient for none
    via_conn,     \* connection -> its state, its peer, the connection it runs over
    via_call      \* the send_file call just made

nodeVars      == <<self_fp, table, now, nodeCall, lastReport>>
transportVars == <<handlers, lastConn>>
mailbagVars   == <<outbox, states, stateDir, sendLog, appReceived, mbCall,
                   finished, staging>>
bridgeVars    == <<wall, scanDirExists, scanDir, marker, archives, keep_original,
                   bridgePc, new_files, bridgeCall, quiet, lowWater, packedAt>>
chunkVars     == <<fileBytes, chunkSize, frags, assembled>>
connVars      == <<running, stopPc, conn_cache, connState, loopPc, sendCall>>
netVars       == <<net_table, net_now, net_flight>>
updVars       == <<upd_calls, upd_start>>
reapVars      == <<reap_now, reap_cache, reap_busy, reap_call>>
scanVars      == <<scan_thread>>
rcvVars       == <<rcv_total, rcv_heap, rcv_job, rcv_frags, rcv_out, rcv_thr,
                   rcv_runs, rcv_arrived>>
viaVars       == <<via_cache, via_conn, via_call>>
auxVars       == <<netVars, updVars, reapVars, scanVars, rcvVars, viaVars>>
auxButNet     == <<updVars, reapVars, scanVars, rcvVars, viaVars>>
auxButUpd     == <<netVars, reapVars, scanVars, rcvVars, viaVars>>
auxButReap    == <<netVars, updVars, scanVars, rcvVars, viaVars>>
auxButScan    == <<netVars, updVars, reapVars, rcvVars, viaVars>>
auxButRcv     == <<netVars, updVars, reapVars, scanVars, viaVars>>
auxButVia     == <<netVars, updVars, reapVars, scanVars, rcvVars>>
vars          == <<nodeVars, transportVars, mailbagVars, bridgeVars, chunkVars,
                   connVars, auxVars>>

(***************************************************************************)
(* Bounds of the model                                                     *)
(***************************************************************************)
MaxCost == 3      \* reported costs range over -NegCost .. MaxCost
NegCost == 2
MaxTime == 300    \* the clock of SpecNode stops advancing at MaxTime seconds
MaxWall == 3      \* the clock of SpecBridge stops advancing at MaxWall ticks
TicksPerSecond == 2  \* the ticks of the bridge's clock in one second
MaxScanTime == 120  \* the clock of SpecMailbag stops advancing at MaxScanTime seconds
MaxRetryTime == 300  \* the clock of SpecRetry stops advancing at MaxRetryTime seconds
MaxConns == 2  \* at most MaxConns outbound connections are opened in a run
MaxFlight == 2  \* at most MaxFlight heartbeats are in flight at a time in SpecDelay
MaxViaConns == 5  \* at most MaxViaConns connections are opened in a run of SpecVia
MaxFragments == 2  \* the received file has at most MaxFragments fragments
MaxHandlers == 2  \* the handler threads that call update() concurrently
MaxNetTime == 180  \* the clock of SpecNet stops advancing at MaxNetTime seconds
MaxReapTime == 180  \* the clock of SpecReaper stops advancing at MaxReapTime seconds
BigChunks == 2    \* the number of chunks of the multi-chunk file of the model
MaxLen == 4       \* the longest file of SpecChunk, in bytes
MaxChunk == 3     \* the largest chunk size of SpecChunk, in bytes

(***************************************************************************)
(* Program constants                                                       *)
(***************************************************************************)
PHEROMONE_MAX_AGE  == 120
BROADCAST_INTERVAL == 30
INF                == 1000000   \* float('inf'): above every finite cost of the model
CHUNK_SIZE         == 2097152   \* 2 * 1024 * 1024
SCAN_INTERVAL      == 30
RETRY_DELAY        == 60
MAX_RETRIES        == 5
CONN_TTL           == 120       \* _CONN_TTL
REAP_INTERVAL      == 30        \* time.sleep(30) of _conn_reaper

None    == "none"
host_fp == "h"
Neighbors == {"b", "c"}
Fingerprints == {host_fp, "a"} \cup Neighbors
ReportedCosts == ((0 - NegCost) .. MaxCost) \cup {INF}

(***************************************************************************)
(* PostmareNode                                                            *)
(***************************************************************************)
PheromoneEntry(value, next_hop, timestamp) ==
    [value |-> value, next_hop |-> next_hop, timestamp |-> timestamp]

\* PostmareNode.__init__: the table is empty, except on the host itself
NodeInitTable(self) ==
    IF self = host_fp THEN (host_fp :> PheromoneEntry(0, None, 0))
                      ELSE << >>

get_next_hop(target_fp) ==
    IF target_fp \in DOMAIN table /\ table[target_fp].value < INF
    THEN table[target_fp].next_hop
    ELSE None

get_pheromone_value(target_fp) ==
    IF target_fp \in DOMAIN table THEN table[target_fp].value ELSE INF

has_route(target_fp) == get_next_hop(target_fp) # None

\* Better with ties replaced (<= for <)
BetterOrEqual(new_cost, tbl, target) ==
    target \notin DOMAIN tbl \/ new_cost <= tbl[target].value

\* Better with the comparison dropped: the latest report wins
BetterAlways(new_cost, tbl, target) == TRUE

\* the comparison of update(): is the candidate taken over the current entry?
Better(new_cost, tbl, target) ==
    target \notin DOMAIN tbl \/ new_cost < tbl[target].value

\* UpdateTable storing the reported value without the hop to the neighbor
UpdateTableNoHop(tbl, neighbor_fp, reported_value, t) ==
    IF reported_value >= INF THEN tbl
    ELSE IF Better(reported_value + 1, tbl, host_fp)
         THEN [fp \in DOMAIN tbl \cup {host_fp} |->
                  IF fp = host_fp
                  THEN PheromoneEntry(reported_value, neighbor_fp, t)
                  ELSE tbl[fp]]
         ELSE tbl

\* UpdateTable storing the cost without the neighbor it came from
UpdateTableForgetsHop(tbl, neighbor_fp, reported_value, t) ==
    IF reported_value >= INF THEN tbl
    ELSE IF Better(reported_value + 1, tbl, host_fp)
         THEN [fp \in DOMAIN tbl \cup {host_fp} |->
                  IF fp = host_fp
                  THEN PheromoneEntry(reported_value + 1, None, t)
                  ELSE tbl[fp]]
         ELSE tbl

\* update with the hop added to a report of 0 only
UpdateTableHopOnce(tbl, neighbor_fp, reported_value, t) ==
    LET cost == IF reported_value = 0 THEN 1 ELSE reported_value
    IN  IF reported_value >= INF THEN tbl
        ELSE IF Better(cost, tbl, host_fp)
             THEN [fp \in DOMAIN tbl \cup {host_fp} |->
                      IF fp = host_fp
                      THEN PheromoneEntry(cost, neighbor_fp, t)
                      ELSE tbl[fp]]
             ELSE tbl

\* update(neighbor_fp, reported_value): the table after the call
UpdateTable(tbl, neighbor_fp, reported_value, t) ==
    IF reported_value >= INF THEN tbl
    ELSE IF Better(reported_value + 1, tbl, host_fp)
         THEN [fp \in DOMAIN tbl \cup {host_fp} |->
                  IF fp = host_fp
                  THEN PheromoneEntry(reported_value + 1, neighbor_fp, t)
                  ELSE tbl[fp]]
         ELSE tbl

\* update(neighbor_fp, reported_value): the value returned
UpdateResult(tbl, reported_value) ==
    reported_value < INF /\ Better(reported_value + 1, tbl, host_fp)

\* Stale with the age compared by >= instead of >
StaleOrEqual(tbl, self, t) ==
    {fp \in DOMAIN tbl : fp # self /\ (t - tbl[fp].timestamp) >= PHEROMONE_MAX_AGE}

\* one pass of _decay_loop: the targets dropped
Stale(tbl, self, t) ==
    {fp \in DOMAIN tbl : fp # self /\ (t - tbl[fp].timestamp) > PHEROMONE_MAX_AGE}

DecayTable(tbl, self, t) ==
    [fp \in DOMAIN tbl \ Stale(tbl, self, t) |-> tbl[fp]]

NodeCall(op, neighbor, value, ret) ==
    [op |-> op, neighbor |-> neighbor, value |-> value, ret |-> ret,
     before |-> get_pheromone_value(host_fp)]

Update(neighbor_fp, reported_value) ==
    /\ table' = UpdateTable(table, neighbor_fp, reported_value, now)
    /\ nodeCall' = NodeCall("update", neighbor_fp, reported_value,
                            UpdateResult(table, reported_value))
    /\ lastReport' = <<neighbor_fp, reported_value>>
    /\ UNCHANGED <<self_fp, now>>

Decay ==
    /\ table' = DecayTable(table, self_fp, now)
    /\ nodeCall' = NodeCall("decay", None, 0, FALSE)
    /\ lastReport' = <<None, 0>>
    /\ UNCHANGED <<self_fp, now>>

\* time passes: one broadcast interval
Tick ==
    /\ now + BROADCAST_INTERVAL <= MaxTime
    /\ now' = now + BROADCAST_INTERVAL
    /\ nodeCall' = NodeCall("tick", None, 0, FALSE)
    /\ UNCHANGED <<self_fp, table, lastReport>>

NodeInit ==
    /\ self_fp \in {host_fp, "a"}
    /\ table = NodeInitTable(self_fp)
    /\ now = 0
    /\ nodeCall = [op |-> "init", neighbor |-> None, value |-> 0, ret |-> FALSE,
                   before |-> INF]
    /\ lastReport = <<None, 0>>

(***************************************************************************)
(* PostmareTransport: inbound connections (_handle_conn)                   *)
(***************************************************************************)
\* key pairs: those of the configured neighbors, and one nobody has configured
Keys == {"kb", "kc", "kx"}

\* hashlib.sha256(key.get_base64()).hexdigest()
Fingerprint(key) ==
    CASE key = "kb" -> "b"
      [] key = "kc" -> "c"
      [] OTHER      -> "x"

\* PostmareTransport._known_keys, parsed from the neighbors' configuration
known_keys == ("b" :> "kb") @@ ("c" :> "kc")

MsgTypes   == {"pheromone", "status"}
MsgTargets == {host_fp, "z"}
MsgValues  == {0, INF}
MsgSenders == {"b"}
MsgData    == [type : MsgTypes, sender : MsgSenders, target : MsgTargets,
               value : MsgValues]

\* a payload other than the one signed
Tampered(data) ==
    [data EXCEPT !.value = IF data.value = 0 THEN MaxCost ELSE 0]

\* _wrap_signed: the envelope {data, signature}; the signature is made with
\* a private key over the serialized data
Signed(data, key) ==
    [data |-> data, signature |-> [key |-> key, payload |-> data]]

\* _PostmareServerInterface.check_auth_publickey: the peer_fp recorded
CheckAuthPublickey(key) ==
    IF Fingerprint(key) \in DOMAIN known_keys THEN Fingerprint(key) ELSE None

\* _verify_signed accepting every envelope of a known sender
VerifySignedKnownOnly(packet, sender_fp) ==
    sender_fp \in DOMAIN known_keys

\* _verify_signed(packet, sender_fp)
VerifySigned(packet, sender_fp) ==
    /\ sender_fp \in DOMAIN known_keys
    /\ packet.signature.key = known_keys[sender_fp]
    /\ packet.signature.payload = packet.data

\* _handle_conn up to the dispatch: is the handler called?
Dispatched(conn, peer_fp) ==
    /\ conn.chan
    /\ peer_fp # None
    /\ conn.kind = "json"
    /\ VerifySigned(conn.packet, peer_fp)
    /\ conn.packet.data.type \in handlers

NoConn ==
    [key |-> None, chan |-> FALSE, kind |-> "empty",
     packet |-> Signed([type |-> "status", sender |-> "b", target |-> host_fp,
                        value |-> INF], "kx"),
     peer_fp |-> None, invoked |-> FALSE]

\* the inbound connections: the key the client authenticates with, whether a
\* channel opens, and what is read from it (nothing, bytes that are no JSON,
\* or an envelope); without a channel nothing is read
Envelopes ==
    { [data |-> IF tam THEN Tampered(d) ELSE d,
       signature |-> [key |-> sk, payload |-> d]] :
         d \in MsgData, sk \in Keys, tam \in BOOLEAN }

Conns ==
    { [key |-> k, chan |-> FALSE, kind |-> "empty", packet |-> NoConn.packet] :
        k \in Keys }
    \cup { [key |-> k, chan |-> TRUE, kind |-> kd, packet |-> NoConn.packet] :
        k \in Keys, kd \in {"empty", "garbage"} }
    \cup { [key |-> k, chan |-> TRUE, kind |-> "json", packet |-> pk] :
        k \in Keys, pk \in Envelopes }

\* Postmare.__init__: transport.register_handler('pheromone', ... node.update ...)
RegisterHandler(msg_type) ==
    /\ handlers' = handlers \cup {msg_type}
    /\ UNCHANGED <<lastConn, nodeVars, mailbagVars, bridgeVars, chunkVars, connVars, auxVars>>

\* _handle_conn(conn, addr); the 'pheromone' handler is the one Postmare
\* registers: node.update(sender_fp, data.get('value', inf))
HandleConn(conn) ==
    LET peer_fp == CheckAuthPublickey(conn.key)
        call    == Dispatched(conn, peer_fp)
    IN  /\ lastConn' = [key |-> conn.key, chan |-> conn.chan, kind |-> conn.kind,
                        packet |-> conn.packet, peer_fp |-> peer_fp,
                        invoked |-> call]
        /\ IF call /\ conn.packet.data.type = "pheromone"
           THEN Update(peer_fp, conn.packet.data.value)
           ELSE UNCHANGED nodeVars
        /\ UNCHANGED <<handlers, mailbagVars, bridgeVars, chunkVars, connVars, auxVars>>

TransportInit ==
    /\ handlers = {}
    /\ lastConn = NoConn

(***************************************************************************)
(* PostmareMailbag: the delivery queue                                     *)
(***************************************************************************)
\* File contents; a content stands for its bytes and has a size
Contents == {"big", "small"}

Size(content) ==
    IF content = "big" THEN (BigChunks - 1) * CHUNK_SIZE + 1 ELSE 100

\* _file_id: the SHA256 of the content (one id per content)
FileId(content) == <<"sha256", content>>

FileIds == {FileId(c) : c \in Contents}

\* no id: a name that holds the hex digits of no file's id
NoId == <<"sha256", "none">>

ContentOf(fid) == fid[2]

\* File names: `embeds` is the file id whose hex digits the name holds (none
\* for the names Bridge._pack gives); hidden names start with a dot
PackageName == [base |-> <<"proj.tar.gz", 0>>,    embeds |-> NoId, hidden |-> FALSE]
MarkerName  == [base |-> <<".bridge_marker", 0>>, embeds |-> NoId, hidden |-> TRUE]
FragName(fid, idx) ==
    [base |-> <<".frag", idx>>, embeds |-> fid, hidden |-> FALSE]

File(name, content) == [name |-> name, content |-> content]

\* what Bridge.deliver leaves in the mailbag: the archive and its marker
PackageFile == File(PackageName, "big")
MarkerFile  == File(MarkerName, "mark")
\* what an upstream node's single-chunk send leaves in the staging directory:
\* remote = /tmp/postmare_incoming/{file_id}.frag.0
StagedFiles == {File(FragName(FileId("small"), 0), "small")}

\* _total_chunks with the size divided rounding down
ChunkCountFloor(size, k) ==
    LET n == size \div k
    IN  IF n > 1 THEN n ELSE 1

\* _total_chunks for a file of `size` bytes and chunks of k bytes:
\* max(1, (size + k - 1) // k)
ChunkCount(size, k) ==
    LET n == (size + k - 1) \div k
    IN  IF n > 1 THEN n ELSE 1

\* _total_chunks
TotalChunks(content) == ChunkCount(Size(content), CHUNK_SIZE)

\* f.seek(offset); f.read(n): at most n bytes from the offset on
ReadAt(bytes, offset, n) ==
    LET last == IF offset + n < Len(bytes) THEN offset + n ELSE Len(bytes)
    IN  SubSeq(bytes, offset + 1, last)

\* _iter_chunks(path, idx), first item: the chunk read at idx * CHUNK_SIZE
IterChunk(bytes, idx, k) == ReadAt(bytes, idx * k, k)

\* _send_task: what is sent as fragment idx: the whole file when the job has
\* one chunk, else the chunk _iter_chunks gives
FragmentBytes(bytes, idx, k) ==
    IF ChunkCount(Len(bytes), k) = 1 THEN bytes ELSE IterChunk(bytes, idx, k)

\* _assemble: the fragments written one after the other for idx in range(total)
RECURSIVE AssembleFrom(_, _, _)
AssembleFrom(frs, idx, total) ==
    IF idx >= total THEN << >>
    ELSE frs[idx] \o AssembleFrom(frs, idx + 1, total)

\* FragmentState.__init__
FragmentState(file_path, file_id, total) ==
    [file_path |-> file_path, file_id |-> file_id, total |-> total,
     sent |-> {}, retries |-> 0, last_try |-> 0]

\* FragmentState.done
Done(fs) == Cardinality(fs.sent) = fs.total

\* FragmentState.pending_indices, ascending
RECURSIVE PendingFrom(_, _)
PendingFrom(fs, i) ==
    IF i >= fs.total THEN << >>
    ELSE IF i \in fs.sent THEN PendingFrom(fs, i + 1)
         ELSE <<i>> \o PendingFrom(fs, i + 1)

\* pending_indices that lists every index, sent or not
pending_all(fs) == PendingFrom([fs EXCEPT !.sent = {}], 0)

pending_indices(fs) == PendingFrom(fs, 0)

\* FragmentState.to_dict
to_dict(fs) ==
    [file_id |-> fs.file_id, total |-> fs.total, sent |-> fs.sent,
     retries |-> fs.retries, last_try |-> fs.last_try]

\* FragmentState.from_dict
from_dict(file_path, d) ==
    [file_path |-> file_path, file_id |-> d.file_id, total |-> d.total,
     sent |-> d.sent, retries |-> d.retries, last_try |-> d.last_try]

\* _save_state: the state directory with the job's record written
SaveState(dir, fs) ==
    [id \in DOMAIN dir \cup {fs.file_id} |->
        IF id = fs.file_id THEN to_dict(fs) ELSE dir[id]]

\* unlink of a record
RemoveState(dir, fid) == [id \in DOMAIN dir \ {fid} |-> dir[id]]

JobIds(sts) == {sts[i].file_id : i \in DOMAIN sts}

JobOf(sts, fid) == sts[CHOOSE i \in DOMAIN sts : sts[i].file_id = fid]

\* _states.pop(file_id)
RECURSIVE PopJob(_, _)
PopJob(sts, fid) ==
    IF sts = << >> THEN << >>
    ELSE IF Head(sts).file_id = fid THEN PopJob(Tail(sts), fid)
         ELSE <<Head(sts)>> \o PopJob(Tail(sts), fid)

\* the job's object updated in place
PutJob(sts, fs) ==
    [i \in DOMAIN sts |-> IF sts[i].file_id = fs.file_id THEN fs ELSE sts[i]]

\* the orders in which a set may be listed
Orders(S) ==
    {o \in [1 .. Cardinality(S) -> S] : \A x \in S : \E i \in DOMAIN o : o[i] = x}

\* mailbag_dir.iterdir(): the listings of the directory; the place of a hidden
\* file in the listing changes nothing, so the hidden files are listed first
Listings(dir) ==
    {h \o v : h \in {CHOOSE o \in Orders({f \in dir : f.name.hidden}) : TRUE},
              v \in Orders({f \in dir : ~f.name.hidden})}

\* mailbag_dir.glob("*{file_id[:8]}*"): the files whose name holds the id
GlobById(dir, fid) == {f \in dir : f.name.embeds = fid}

\* _load_states: the candidate backing files of a persisted record
Candidates(dir, fid) == GlobById(dir, fid)

\* _load_states, over the records in listing order: the jobs restored and the
\* records kept
RECURSIVE LoadStates(_, _, _)
LoadStates(order, dir, acc) ==
    IF order = << >> THEN acc
    ELSE LET fid  == Head(order)
             d    == acc.dir[fid]
             cand == Candidates(dir, d.file_id)
         IN  IF cand = {}
             THEN LoadStates(Tail(order), dir,
                             [acc EXCEPT !.dir = RemoveState(acc.dir, fid)])
             ELSE LoadStates(Tail(order), dir,
                             [acc EXCEPT !.states =
                                 Append(acc.states,
                                        from_dict((CHOOSE f \in cand : TRUE).name, d))])

\* Discover that queues the new files without writing their records
RECURSIVE DiscoverNoSave(_, _)
DiscoverNoSave(order, acc) ==
    IF order = << >> THEN acc
    ELSE LET f   == Head(order)
             fid == FileId(f.content)
         IN  IF f.name.hidden \/ fid \in JobIds(acc.states)
             THEN DiscoverNoSave(Tail(order), acc)
             ELSE DiscoverNoSave(Tail(order),
                                 [acc EXCEPT !.states =
                                     Append(acc.states,
                                            FragmentState(f.name, fid,
                                                          TotalChunks(f.content)))])

\* _scan_and_send, first loop: the new files become jobs, persisted at once
RECURSIVE Discover(_, _)
Discover(order, acc) ==
    IF order = << >> THEN acc
    ELSE LET f   == Head(order)
             fid == FileId(f.content)
         IN  IF f.name.hidden \/ fid \in JobIds(acc.states)
             THEN Discover(Tail(order), acc)
             ELSE LET fs == FragmentState(f.name, fid, TotalChunks(f.content))
                  IN  Discover(Tail(order),
                               [acc EXCEPT !.states = Append(acc.states, fs),
                                           !.dir    = SaveState(acc.dir, fs)])

\* one call of send_file: the hop, the job, the chunk, what it returned, and,
\* as of the moment of the call, whether the job's record was on disk and the
\* sent set it held
SendEntry(hop, fs, idx, ok, dir) ==
    [hop |-> hop, file_id |-> fs.file_id, idx |-> idx, ok |-> ok,
     recorded  |-> fs.file_id \in DOMAIN dir,
     persisted |-> IF fs.file_id \in DOMAIN dir THEN dir[fs.file_id].sent ELSE {}]

\* what the sends of one job do in a round: the first `ok` attempts succeed,
\* and the attempt after them, if there is one, ends as `end` says:
\* "fail" (send_file returned false) or "exc" (a local I/O error)
Outcomes(fid) ==
    LET n == TotalChunks(ContentOf(fid))
    IN  {[ok |-> k, end |-> e] :
            k \in 0 .. (n - 1),
            e \in IF n = 1 THEN {"fail"} ELSE {"fail", "exc"}}
        \cup {[ok |-> n, end |-> "fail"]}

\* SendChunks that goes on to the next chunk after a send that failed
RECURSIVE SendChunksNoBreak(_, _, _, _, _, _)
SendChunksNoBreak(pend, fs, acc, hop, o, present) ==
    IF pend = << >> THEN [acc EXCEPT !.states = PutJob(acc.states, fs)]
    ELSE LET idx == Head(pend)
             ok  == present /\ o.ok > 0
             fs2 == IF ok THEN [fs EXCEPT !.sent = @ \cup {idx}]
                          ELSE [fs EXCEPT !.retries = @ + 1]
         IN  SendChunksNoBreak(Tail(pend), fs2,
                               [acc EXCEPT
                                  !.dir = SaveState(acc.dir, fs2),
                                  !.log = Append(acc.log,
                                                 SendEntry(hop, fs, idx, ok, acc.dir))],
                               hop, [o EXCEPT !.ok = IF @ > 0 THEN @ - 1 ELSE 0],
                               present)

\* _send_task, the multi-chunk loop over the pending indices
RECURSIVE SendChunks(_, _, _, _, _, _)
SendChunks(pend, fs, acc, hop, o, present) ==
    IF pend = << >> THEN [acc EXCEPT !.states = PutJob(acc.states, fs)]
    ELSE LET idx == Head(pend)
         IN  IF ~present \/ (o.ok = 0 /\ o.end = "exc")
             THEN \* except: retries += 1; break (no _save_state)
                  [acc EXCEPT !.states =
                      PutJob(acc.states, [fs EXCEPT !.retries = @ + 1])]
             ELSE IF o.ok = 0
             THEN \* send_file returned False: retries += 1; save; break
                  LET fs2 == [fs EXCEPT !.retries = @ + 1]
                  IN  [states |-> PutJob(acc.states, fs2),
                       dir    |-> SaveState(acc.dir, fs2),
                       log    |-> Append(acc.log, SendEntry(hop, fs, idx, FALSE, acc.dir))]
             ELSE \* sent: record the index, save, go on
                  LET fs2 == [fs EXCEPT !.sent = @ \cup {idx}]
                  IN  SendChunks(Tail(pend), fs2,
                                 [acc EXCEPT
                                    !.dir = SaveState(acc.dir, fs2),
                                    !.log = Append(acc.log,
                                                   SendEntry(hop, fs, idx, TRUE, acc.dir))],
                                 hop, [o EXCEPT !.ok = @ - 1], present)

\* _send_task without the return when there is no next hop
SendTaskNoRouteCheck(fs, acc, hop, o, present, t) ==
    LET fs1 == [fs EXCEPT !.last_try = t]
    IN  IF fs1.total = 1 /\ 0 \notin fs1.sent
        THEN LET ok  == present /\ o.ok >= 1
                 fs2 == IF ok THEN [fs1 EXCEPT !.sent = @ \cup {0}]
                              ELSE [fs1 EXCEPT !.retries = @ + 1]
             IN  [states |-> PutJob(acc.states, fs2),
                  dir    |-> SaveState(acc.dir, fs2),
                  log    |-> Append(acc.log, SendEntry(hop, fs1, 0, ok, acc.dir))]
        ELSE SendChunks(pending_indices(fs1), fs1, acc, hop, o, present)

\* _send_task that does not record the chunk of a one-chunk file as sent
SendTaskNoRecord(fs, acc, hop, o, present, t) ==
    IF hop = None THEN acc
    ELSE LET fs1 == [fs EXCEPT !.last_try = t]
         IN  IF fs1.total = 1 /\ 0 \notin fs1.sent
             THEN [states |-> PutJob(acc.states, fs1),
                   dir    |-> SaveState(acc.dir, fs1),
                   log    |-> Append(acc.log, SendEntry(hop, fs1, 0, present /\ o.ok >= 1, acc.dir))]
             ELSE SendChunks(pending_indices(fs1), fs1, acc, hop, o, present)

\* _send_task(fs)
SendTask(fs, acc, hop, o, present, t) ==
    IF hop = None THEN acc
    ELSE LET fs1 == [fs EXCEPT !.last_try = t]
         IN  IF fs1.total = 1 /\ 0 \notin fs1.sent
             THEN LET ok  == present /\ o.ok >= 1
                      fs2 == IF ok THEN [fs1 EXCEPT !.sent = @ \cup {0}]
                                   ELSE [fs1 EXCEPT !.retries = @ + 1]
                  IN  [states |-> PutJob(acc.states, fs2),
                       dir    |-> SaveState(acc.dir, fs2),
                       log    |-> Append(acc.log, SendEntry(hop, fs1, 0, ok, acc.dir))]
             ELSE SendChunks(pending_indices(fs1), fs1, acc, hop, o, present)

\* BackingOff that never holds: a failed job is tried again in every round
BackingOffNever(fs, t) == FALSE

\* _scan_and_send: the job has failed and its retry delay has not passed
BackingOff(fs, t) == t - fs.last_try < RETRY_DELAY /\ fs.retries > 0

\* _finish(fs)
Finish(fs, acc) ==
    [acc EXCEPT !.dir    = RemoveState(acc.dir, fs.file_id),
                !.states = PopJob(acc.states, fs.file_id)]

\* _scan_and_send, second loop, over the snapshot of the jobs
RECURSIVE ProcessTasks(_, _, _, _, _, _)
ProcessTasks(tasks, acc, hop, out, dir, t) ==
    IF tasks = << >> THEN acc
    ELSE LET fs      == Head(tasks)
             present == \E f \in dir : f.name = fs.file_path
             acc2    ==
                IF Done(fs) THEN Finish(fs, acc)
                ELSE IF fs.retries >= MAX_RETRIES THEN acc
                ELSE IF BackingOff(fs, t) THEN acc
                ELSE SendTask(fs, acc, hop, out[fs.file_id], present, t)
         IN  ProcessTasks(Tail(tasks), acc2, hop, out, dir, t)

\* _scan_and_send as a whole: the jobs, the records and the sends after it
ScanResult(order, hop, out) ==
    LET found == Discover(order, [states |-> states, dir |-> stateDir,
                                  log |-> << >>])
    IN  ProcessTasks(found.states, found, hop, out, outbox, now)

\* the step just taken: "scan" for a round of the scan loop, "restart" for a
\* restart of the process, "other" for the rest; `persisted` is, for a
\* restart, the sent sets of the records whose file was in the mailbag when
\* the process stopped
MbCall(op, hop, persisted) == [op |-> op, hop |-> hop, persisted |-> persisted]

\* what the get_next_hop callback of the mailbag may return on a relay: the
\* node's next hop toward the host, or nothing while the node has no route
NextHops == Neighbors \cup {None}

\* the ids of the files in a directory
IdsIn(dir) == {FileId(f.content) : f \in dir}

\* the jobs whose sends are tried in a round: not done, not given up, not
\* backing off, with a next hop
Attempted(sts, hop, t) ==
    {fs.file_id : fs \in {x \in {sts[i] : i \in DOMAIN sts} :
        /\ ~Done(x)
        /\ x.retries < MAX_RETRIES
        /\ ~BackingOff(x, t)
        /\ hop # None}}

DefaultOutcome(fid) == [ok |-> TotalChunks(ContentOf(fid)), end |-> "fail"]

\* the outcomes a round may have: one per job whose sends are tried
OutcomeChoices(tried) ==
    {out \in [FileIds -> UNION {Outcomes(i) : i \in FileIds}] :
        \A i \in FileIds :
            out[i] \in IF i \in tried THEN Outcomes(i) ELSE {DefaultOutcome(i)}}

\* one round of _scan_loop on a node whose is_host flag is `is_host`; hop is
\* what get_next_hop returns in the round; in a round of a reliable link every
\* send attempt succeeds
ScanRound(hop, is_host, reliable) ==
    /\ IF is_host
       THEN UNCHANGED <<states, stateDir, sendLog, finished>>
       ELSE \E order \in Listings(outbox) :
              LET found == Discover(order, [states |-> states, dir |-> stateDir,
                                            log |-> << >>])
                  tried == Attempted(found.states, hop, now)
              IN  \E out \in IF reliable THEN {[i \in FileIds |-> DefaultOutcome(i)]}
                                          ELSE OutcomeChoices(tried) :
                    LET r == ScanResult(order, hop, out)
                    IN  /\ states'   = r.states
                        /\ stateDir' = r.dir
                        /\ sendLog'  = r.log
                        /\ finished' = finished \cup (JobIds(states) \ JobIds(r.states))
    /\ mbCall' = MbCall("scan", hop, << >>)
    /\ UNCHANGED <<outbox, appReceived, staging>>

\* a round of _scan_loop that does not look at is_host
ScanAndSendNoHostCheck(hop) == ScanRound(hop, FALSE, FALSE)

\* one round of _scan_loop; is_host is host_fp == self_fp (Postmare.__init__)
ScanAndSend(hop) == ScanRound(hop, self_fp = host_fp, FALSE)

\* a round of _scan_loop in which the next hop is resolved and every send to
\* it succeeds
ReliableScan(hop) == hop # None /\ ScanRound(hop, self_fp = host_fp, TRUE)

\* Bridge.deliver: the archive, and the project's marker, appear in the mailbag
PutPackage ==
    /\ outbox' = outbox \cup {PackageFile, MarkerFile}
    /\ mbCall' = MbCall("other", None, << >>)
    /\ sendLog' = << >>
    /\ UNCHANGED <<states, stateDir, appReceived, finished, staging>>

\* the archive while _pack is writing it: the file has the archive's name and
\* the bytes written so far, which are another content with another id
PartialPackage == File(PackageName, "small")

\* Bridge._pack, tarfile.open(tar_path, 'w:gz') and the first tar.add: the
\* file is created under its final name in the mailbag directory
PackOpen ==
    /\ bridgePc = "idle"
    /\ PackageFile \notin outbox
    /\ bridgePc' = "packing"
    /\ outbox' = outbox \cup {PartialPackage}
    /\ mbCall' = MbCall("other", None, << >>)
    /\ sendLog' = << >>
    /\ UNCHANGED <<states, stateDir, appReceived, finished, staging>>
    /\ UNCHANGED <<wall, scanDirExists, scanDir, marker, archives, keep_original,
                   new_files, bridgeCall, quiet, lowWater, packedAt>>

\* Bridge._pack, the remaining tar.add calls and the end of the with block,
\* then deliver writes the marker
PackClose ==
    /\ bridgePc = "packing"
    /\ bridgePc' = "idle"
    /\ outbox' = (outbox \ {PartialPackage}) \cup {PackageFile, MarkerFile}
    /\ mbCall' = MbCall("other", None, << >>)
    /\ sendLog' = << >>
    /\ UNCHANGED <<states, stateDir, appReceived, finished, staging>>
    /\ UNCHANGED <<wall, scanDirExists, scanDir, marker, archives, keep_original,
                   new_files, bridgeCall, quiet, lowWater, packedAt>>

\* an upstream node's send_file completes: sftp.put has written the file to
\* the staging location of this node
StageFile(f) ==
    /\ staging' = staging \cup {f}
    /\ mbCall' = MbCall("other", None, << >>)
    /\ sendLog' = << >>
    /\ UNCHANGED <<outbox, states, stateDir, appReceived, finished>>

\* PostmareTransport._on_sftp_file_received(path): the sink hands the file to
\* the callback, a relay moves it into its mailbag.  The method has no caller
\* in the repository, so no step of the specification takes it.
SftpFileReceived(f) ==
    /\ f \in staging
    /\ IF self_fp = host_fp
       THEN /\ appReceived' = appReceived \cup {f}
            /\ UNCHANGED <<outbox, staging>>
       ELSE /\ outbox' = outbox \cup {f}
            /\ staging' = staging \ {f}
            /\ UNCHANGED appReceived
    /\ mbCall' = MbCall("other", None, << >>)
    /\ sendLog' = << >>
    /\ UNCHANGED <<states, stateDir, finished>>

\* a staged file is moved into the mailbag directory by hand, as the relay
\* section of test_full_chain.py does
DropFile(f) ==
    /\ f \in staging
    /\ outbox' = outbox \cup {f}
    /\ staging' = staging \ {f}
    /\ mbCall' = MbCall("other", None, << >>)
    /\ sendLog' = << >>
    /\ UNCHANGED <<states, stateDir, appReceived, finished>>

\* a file is taken out of the mailbag directory (by the operator)
RemoveFile(f) ==
    /\ f \in outbox
    /\ ~f.name.hidden
    /\ outbox' = outbox \ {f}
    /\ finished' = finished \ {FileId(f.content)}
    /\ mbCall' = MbCall("other", None, << >>)
    /\ sendLog' = << >>
    /\ UNCHANGED <<states, stateDir, appReceived, staging>>

\* the process stops and starts again: the memory of the process is lost, the
\* directories stay; PostmareNode.__init__ and PostmareMailbag.__init__ with
\* _load_states run
Restart ==
    /\ \E order \in Orders(DOMAIN stateDir) :
          LET r == LoadStates(order, outbox, [states |-> << >>, dir |-> stateDir])
          IN  /\ states'   = r.states
              /\ stateDir' = r.dir
    /\ table' = NodeInitTable(self_fp)
    /\ sendLog' = << >>
    /\ mbCall' = MbCall("restart", None,
                        [id \in DOMAIN stateDir \cap IdsIn(outbox) |-> stateDir[id].sent])
    /\ UNCHANGED <<outbox, appReceived, finished, staging>>
    /\ UNCHANGED <<self_fp, now, nodeCall, lastReport>>

\* time passes: one retry delay (two scan intervals)
ScanTick ==
    /\ now + RETRY_DELAY <= MaxScanTime
    /\ now' = now + RETRY_DELAY
    /\ mbCall' = MbCall("other", None, << >>)
    /\ sendLog' = << >>
    /\ UNCHANGED <<self_fp, table, nodeCall, lastReport>>
    /\ UNCHANGED <<outbox, states, stateDir, appReceived, finished, staging>>

MailbagInit ==
    /\ outbox = {}
    /\ states = << >>
    /\ stateDir = << >>
    /\ sendLog = << >>
    /\ appReceived = {}
    /\ mbCall = MbCall("other", None, << >>)
    /\ finished = {}
    /\ staging = {}

(***************************************************************************)
(* Bridge (bridge.py): deliver packs the new export files of a project     *)
(* into an archive in the mailbag directory.                               *)
(***************************************************************************)

\* export file names: stem and suffix (Path.suffix)
ExportNames ==
    {[stem |-> "events", suffix |-> ".json"],
     [stem |-> "matrix", suffix |-> ".csv"],
     [stem |-> "notes",  suffix |-> ".txt"]}

\* _collect_new_files: exts
Exts == {".json", ".wl", ".gz", ".csv", ".jsonl"}

NoArchive == <<"none", 0>>

\* time.strftime('%Y%m%d_%H%M%S'): the clock cut to whole seconds
Strftime(t) == t \div TicksPerSecond

\* _pack: tar_name = "{project}_{ts}.tar.gz"
ArchiveName(t) == <<"proj", Strftime(t)>>

\* str(time.time()), the text _write_marker writes
MarkerText(t) == <<"float", t>>

\* no marker file
NoMarker == <<"none", 0>>

\* _read_marker: float(marker.read_text()), 0.0 when the file cannot be read
ReadMarker(m) == IF m = NoMarker THEN 0 ELSE IF m[1] = "float" THEN m[2] ELSE 0

\* _collect_new_files without the test of the suffix
CollectAnySuffix(dir, since_ts) == {n \in DOMAIN dir : dir[n] > since_ts}

\* _collect_new_files with mtime >= since_ts
CollectNewOrEqual(dir, since_ts) ==
    {n \in DOMAIN dir : n.suffix \in Exts /\ dir[n] >= since_ts}

\* _collect_new_files(scan_dir, since_ts)
CollectNewFiles(dir, since_ts) ==
    {n \in DOMAIN dir : n.suffix \in Exts /\ dir[n] > since_ts}

BridgeCall(op, ret, files) == [op |-> op, ret |-> ret, files |-> files]

\* an export file is written (primelog.export, or any writer of the directory)
WriteExportFile(n) ==
    /\ scanDir' = [m \in DOMAIN scanDir \cup {n} |-> IF m = n THEN wall ELSE scanDir[m]]
    /\ scanDirExists' = TRUE
    /\ quiet' = FALSE
    /\ bridgeCall' = BridgeCall("write", NoArchive, {})
    /\ UNCHANGED <<wall, marker, archives, keep_original, bridgePc, new_files,
                   lowWater, packedAt>>

\* deliver, up to the test of new_files: returns None when the directory is
\* missing or nothing is new
DeliverCollect ==
    /\ bridgePc = "idle"
    /\ LET found == IF scanDirExists
                    THEN CollectNewFiles(scanDir, ReadMarker(marker))
                    ELSE {}
       IN  IF found = {}
           THEN /\ bridgeCall' = BridgeCall("deliver", NoArchive, {})
                /\ quiet' = TRUE
                /\ UNCHANGED <<bridgePc, new_files>>
           ELSE /\ bridgePc' = "collected"
                /\ new_files' = found
                /\ bridgeCall' = BridgeCall("collect", NoArchive, found)
                /\ UNCHANGED quiet
    /\ UNCHANGED <<wall, scanDirExists, scanDir, marker, archives, keep_original,
                   lowWater, packedAt>>

\* deliver, from _pack to the return: the archive is written, the marker is
\* written, the originals are removed unless kept
DeliverFinish ==
    /\ bridgePc = "collected"
    /\ archives' = [a \in DOMAIN archives \cup {ArchiveName(wall)} |->
                       IF a = ArchiveName(wall) THEN new_files ELSE archives[a]]
    /\ marker' = MarkerText(wall)
    /\ scanDir' = IF keep_original THEN scanDir
                  ELSE [m \in DOMAIN scanDir \ new_files |-> scanDir[m]]
    /\ bridgePc' = "idle"
    /\ new_files' = {}
    /\ bridgeCall' = BridgeCall("deliver", ArchiveName(wall), new_files)
    /\ quiet' = TRUE
    /\ lowWater' = wall
    /\ packedAt' = [m \in DOMAIN packedAt \cup new_files |->
                       IF m \in new_files THEN scanDir[m] ELSE packedAt[m]]
    /\ UNCHANGED <<wall, scanDirExists, keep_original>>

\* time passes
WallTick ==
    /\ wall < MaxWall
    /\ wall' = wall + 1
    /\ bridgeCall' = BridgeCall("tick", NoArchive, {})
    /\ UNCHANGED <<scanDirExists, scanDir, marker, archives, keep_original,
                   bridgePc, new_files, quiet, lowWater, packedAt>>

\* Bridge.__init__ in a fresh deployment
BridgeInit ==
    /\ wall = 1
    /\ scanDirExists = FALSE
    /\ scanDir = << >>
    /\ marker = NoMarker
    /\ archives = << >>
    /\ keep_original \in BOOLEAN
    /\ bridgePc = "idle"
    /\ new_files = {}
    /\ bridgeCall = BridgeCall("init", NoArchive, {})
    /\ quiet = FALSE
    /\ lowWater = 0
    /\ packedAt = << >>

(***************************************************************************)
(* Chunking and reassembly of one file (mailbag.py): the sender's          *)
(* _total_chunks, _iter_chunks and _send_task, the receiver's _assemble.   *)
(***************************************************************************)

ByteValues == {0, 1}

\* the byte strings of at most n bytes
BytesUpTo(n) == UNION {[1 .. l -> ByteValues] : l \in 0 .. n}

NotAssembled == [written |-> FALSE, bytes |-> << >>]

\* the sender's next fragment, the lowest pending index, lands at the receiver
SendFragment ==
    LET total   == ChunkCount(Len(fileBytes), chunkSize)
        pending == (0 .. (total - 1)) \ DOMAIN frags
    IN  /\ pending # {}
        /\ LET idx == CHOOSE i \in pending : \A j \in pending : i <= j
           IN  frags' = [i \in DOMAIN frags \cup {idx} |->
                            IF i = idx THEN FragmentBytes(fileBytes, idx, chunkSize)
                            ELSE frags[i]]
        /\ UNCHANGED <<fileBytes, chunkSize, assembled>>

\* receive_fragment finds the job done and calls _assemble
AssembleFile ==
    LET total == ChunkCount(Len(fileBytes), chunkSize)
    IN  /\ DOMAIN frags = 0 .. (total - 1)
        /\ ~assembled.written
        /\ assembled' = [written |-> TRUE, bytes |-> AssembleFrom(frags, 0, total)]
        /\ UNCHANGED <<fileBytes, chunkSize, frags>>

\* no file is in transfer
ChunkIdle ==
    /\ fileBytes = << >>
    /\ chunkSize = 1
    /\ frags = << >>
    /\ assembled = NotAssembled

\* a file of any size and a chunk size
ChunkInit ==
    /\ fileBytes \in BytesUpTo(MaxLen)
    /\ chunkSize \in 1 .. MaxChunk
    /\ frags = << >>
    /\ assembled = NotAssembled

(***************************************************************************)
(* The connection cache of PostmareTransport and the background loops of   *)
(* Postmare (transport.py, node.py, mailbag.py, postmare.py).  A step is a *)
(* section under _cache_lock or a piece of code between two such sections. *)
(* ProxyJump (the via field) is left out: every peer is reached directly.  *)
(***************************************************************************)
Owners  == {"mailbag", "node", "transport"}
Loops   == {"decay", "bcast", "scan", "accept", "reap"}
Senders == {"scan", "bcast"}
Peers   == Neighbors
ConnIds == 1 .. MaxConns
NoClient == 0

\* the component whose _running flag the loop observes
OwnerOf(t) ==
    CASE t = "scan" -> "mailbag"
      [] t \in {"decay", "bcast"} -> "node"
      [] OTHER -> "transport"

NoCall == [pc |-> "none", peer |-> None, client |-> NoClient, dropped |-> NoClient,
           ret |-> FALSE, cause |-> "none"]

\* the thread enters send_file (scan) or _send_json (bcast) for the peer
EnterCall(peer) == [NoCall EXCEPT !.pc = "lookup", !.peer = peer]

\* after construction: nothing runs, no connection exists
ConnInit ==
    /\ running = [o \in Owners |-> FALSE]
    /\ stopPc = "no"
    /\ conn_cache = [p \in Peers |-> NoClient]
    /\ connState = [c \in ConnIds |-> "unused"]
    /\ loopPc = [t \in Loops |-> "none"]
    /\ sendCall = [t \in Senders |-> NoCall]

\* Postmare.start: transport, node and mailbag set their flag and start
\* their threads
Start ==
    /\ \A t \in Loops : loopPc[t] = "none"
    /\ running' = [o \in Owners |-> TRUE]
    /\ loopPc' = [t \in Loops |-> "sleep"]
    /\ UNCHANGED <<stopPc, conn_cache, connState, sendCall>>

\* a loop comes to its `while self._running` test: _scan_loop and
\* _broadcast_loop start a round or leave; _decay_loop, _conn_reaper and
\* _server_loop have just done their pass (ReapPass, for the reaper) or their
\* accept
LoopWake(t) ==
    /\ loopPc[t] = "sleep"
    /\ t # "reap"
    /\ IF running[OwnerOf(t)]
       THEN IF t \in Senders
            THEN \E p \in Peers :
                    /\ loopPc' = [loopPc EXCEPT ![t] = "busy"]
                    /\ sendCall' = [sendCall EXCEPT ![t] = EnterCall(p)]
            ELSE UNCHANGED <<loopPc, sendCall>>
       ELSE /\ loopPc' = [loopPc EXCEPT ![t] = "exited"]
            /\ UNCHANGED sendCall
    /\ UNCHANGED <<running, stopPc, conn_cache, connState>>

\* _get_conn, the section under the lock: an active cached connection is
\* returned, a dead one is closed and deleted
GetConnCached(t) ==
    LET p      == sendCall[t].peer
        cached == conn_cache[p]
    IN  /\ sendCall[t].pc = "lookup"
        /\ IF cached # NoClient /\ connState[cached] = "active"
           THEN /\ sendCall' = [sendCall EXCEPT ![t].pc = "transfer", ![t].client = cached]
                /\ UNCHANGED <<conn_cache, connState>>
           ELSE /\ sendCall' = [sendCall EXCEPT ![t].pc = "connect"]
                /\ conn_cache' = [conn_cache EXCEPT ![p] = NoClient]
                /\ connState' = IF cached = NoClient THEN connState
                                ELSE [connState EXCEPT ![cached] = "closed"]
        /\ UNCHANGED <<running, stopPc, loopPc>>

\* _get_conn, client.connect outside the lock: it fails (None is returned,
\* the caller returns False) or gives a new connection
Connect(t) ==
    /\ sendCall[t].pc = "connect"
    /\ \/ /\ sendCall' = [sendCall EXCEPT ![t].pc = "returned", ![t].ret = FALSE,
                                  ![t].cause = "connect"]
          /\ UNCHANGED connState
       \/ \E c \in ConnIds :
            /\ connState[c] = "unused"
            /\ \A d \in ConnIds : d < c => connState[d] # "unused"
            /\ connState' = [connState EXCEPT ![c] = "active"]
            /\ sendCall' = [sendCall EXCEPT ![t].pc = "insert", ![t].client = c]
    /\ UNCHANGED <<running, stopPc, conn_cache, loopPc>>

\* _get_conn, the second section under the lock: the new connection is cached
CacheConn(t) ==
    /\ sendCall[t].pc = "insert"
    /\ conn_cache' = [conn_cache EXCEPT ![sendCall[t].peer] = sendCall[t].client]
    /\ sendCall' = [sendCall EXCEPT ![t].pc = "transfer"]
    /\ UNCHANGED <<running, stopPc, connState, loopPc>>

\* the try block of send_file / _send_json: the transfer succeeds and True is
\* returned, or an exception is raised
Transfer(t) ==
    /\ sendCall[t].pc = "transfer"
    /\ \/ /\ connState[sendCall[t].client] = "active"
          /\ sendCall' = [sendCall EXCEPT ![t].pc = "returned", ![t].ret = TRUE,
                                  ![t].cause = "none"]
       \/ sendCall' = [sendCall EXCEPT ![t].pc = "pop"]
    /\ UNCHANGED <<running, stopPc, conn_cache, connState, loopPc>>

\* _drop_conn that leaves the cache as it is
DropConnKeep(t) ==
    /\ sendCall[t].pc = "pop"
    /\ sendCall' = [sendCall EXCEPT ![t].pc = "close", ![t].dropped = NoClient]
    /\ UNCHANGED <<running, stopPc, conn_cache, connState, loopPc>>

\* _drop_conn, the section under the lock: the peer's entry is popped
DropConn(t) ==
    /\ sendCall[t].pc = "pop"
    /\ sendCall' = [sendCall EXCEPT ![t].pc = "close",
                            ![t].dropped = conn_cache[sendCall[t].peer]]
    /\ conn_cache' = [conn_cache EXCEPT ![sendCall[t].peer] = NoClient]
    /\ UNCHANGED <<running, stopPc, connState, loopPc>>

\* _drop_conn closes what it popped; send_file / _send_json returns False
CloseDropped(t) ==
    /\ sendCall[t].pc = "close"
    /\ connState' = IF sendCall[t].dropped = NoClient THEN connState
                    ELSE [connState EXCEPT ![sendCall[t].dropped] = "closed"]
    /\ sendCall' = [sendCall EXCEPT ![t].pc = "returned", ![t].ret = FALSE,
                                    ![t].cause = "transfer",
                                    ![t].dropped = NoClient]
    /\ UNCHANGED <<running, stopPc, conn_cache, loopPc>>

\* the round goes on with the next chunk, job or neighbour
NextCall(t) ==
    /\ sendCall[t].pc = "returned"
    /\ \E p \in Peers : sendCall' = [sendCall EXCEPT ![t] = EnterCall(p)]
    /\ UNCHANGED <<running, stopPc, conn_cache, connState, loopPc>>

\* the round is over: time.sleep
EndRound(t) ==
    /\ sendCall[t].pc = "returned"
    /\ sendCall' = [sendCall EXCEPT ![t] = NoCall]
    /\ loopPc' = [loopPc EXCEPT ![t] = "sleep"]
    /\ UNCHANGED <<running, stopPc, conn_cache, connState>>

\* _conn_reaper wakes: the idle connections (any of the cached ones, time is
\* not counted here) are closed and deleted; then the flag is tested
ReapPass ==
    /\ loopPc["reap"] = "sleep"
    /\ \E stale \in SUBSET {p \in Peers : conn_cache[p] # NoClient} :
          /\ conn_cache' = [p \in Peers |->
                               IF p \in stale THEN NoClient ELSE conn_cache[p]]
          /\ connState' = [c \in ConnIds |->
                              IF \E p \in stale : conn_cache[p] = c
                              THEN "closed" ELSE connState[c]]
    /\ loopPc' = [loopPc EXCEPT
                     !["reap"] = IF running["transport"] THEN "sleep" ELSE "exited"]
    /\ UNCHANGED <<running, stopPc, sendCall>>

\* the peer or the network ends a connection
ConnBreak(c) ==
    /\ connState[c] = "active"
    /\ connState' = [connState EXCEPT ![c] = "broken"]
    /\ UNCHANGED <<running, stopPc, conn_cache, loopPc, sendCall>>

\* Postmare.stop up to the lock of PostmareTransport.stop: mailbag.stop,
\* node.stop and the first line of transport.stop clear the three flags
StopLoops ==
    /\ stopPc = "no"
    /\ \A t \in Loops : loopPc[t] # "none"
    /\ running' = [o \in Owners |-> FALSE]
    /\ stopPc' = "flags"
    /\ UNCHANGED <<conn_cache, connState, loopPc, sendCall>>

\* PostmareTransport.stop: under the lock every cached connection is closed
\* and the cache cleared; stop returns
StopTransportClear ==
    /\ stopPc = "flags"
    /\ connState' = [c \in ConnIds |->
                        IF \E p \in Peers : conn_cache[p] = c
                        THEN "closed" ELSE connState[c]]
    /\ conn_cache' = [p \in Peers |-> NoClient]
    /\ stopPc' = "returned"
    /\ UNCHANGED <<running, loopPc, sendCall>>

(***************************************************************************)
(* A network of Postmare nodes (node.py, transport.py broadcast_heartbeat,  *)
(* postmare.py wiring): every node keeps its table, broadcasts its stored  *)
(* cost to its configured neighbors and ages its entries.  A heartbeat     *)
(* that is sent is handled at once; one that is lost is a step not taken.  *)
(***************************************************************************)
NetNodes == {host_fp, "a", "b"}

\* the configured neighbors (receivers.json): the line h - b - a
NetLinks == {{host_fp, "b"}, {"b", "a"}}

\* get_pheromone_value(host_fp) on a table
StoredCost(tbl) == IF host_fp \in DOMAIN tbl THEN tbl[host_fp].value ELSE INF

\* get_next_hop(host_fp) on a table
StoredHop(tbl) ==
    IF host_fp \in DOMAIN tbl /\ tbl[host_fp].value < INF
    THEN tbl[host_fp].next_hop
    ELSE None

NetInit ==
    /\ net_table = [n \in NetNodes |-> NodeInitTable(n)]
    /\ net_now = 0
    /\ net_flight = {}

\* _broadcast_loop of node n: send_heartbeat to neighbor m carries n's stored
\* cost; the 'pheromone' handler of m calls update(n, value)
NetHeartbeat(n, m) ==
    /\ {n, m} \in NetLinks
    /\ net_table' = [net_table EXCEPT
                        ![m] = UpdateTable(net_table[m], n,
                                           StoredCost(net_table[n]), net_now)]
    /\ UNCHANGED <<net_now, net_flight>>

\* one pass of _decay_loop on node n
NetDecay(n) ==
    /\ net_table' = [net_table EXCEPT ![n] = DecayTable(net_table[n], n, net_now)]
    /\ UNCHANGED <<net_now, net_flight>>

\* time passes: one broadcast interval
NetTick ==
    /\ net_now + BROADCAST_INTERVAL <= MaxNetTime
    /\ net_now' = net_now + BROADCAST_INTERVAL
    /\ UNCHANGED <<net_table, net_flight>>

\* _broadcast_loop of node n, send_heartbeat to neighbor m: the packet carries
\* n's stored cost of this moment and is on its way
NetSend(n, m) ==
    /\ {n, m} \in NetLinks
    /\ Cardinality(net_flight) < MaxFlight
    /\ net_flight' = net_flight \cup
                        {[sender |-> n, to |-> m, value |-> StoredCost(net_table[n])]}
    /\ UNCHANGED <<net_table, net_now>>

\* the 'pheromone' handler of the receiver, after any delay:
\* update(sender, value) at the time of arrival
NetDeliver(msg) ==
    /\ msg \in net_flight
    /\ net_table' = [net_table EXCEPT
                        ![msg.to] = UpdateTable(net_table[msg.to], msg.sender,
                                                msg.value, net_now)]
    /\ net_flight' = net_flight \ {msg}
    /\ UNCHANGED net_now

(***************************************************************************)
(* Concurrent update() calls: the transport runs one handler thread per     *)
(* incoming connection, and each 'pheromone' packet calls update().        *)
(* What update() does before taking _lock reads its arguments only; the    *)
(* read of the entry, the comparison and the write are one section under   *)
(* _lock, so a call is one step.                                           *)
(***************************************************************************)
HandlerThreads == 1 .. MaxHandlers

UpdIdle ==
    /\ upd_calls = << >>
    /\ upd_start = << >>

\* the tables a relay can hold when the calls arrive
StartTables ==
    {<< >>} \cup {(host_fp :> PheromoneEntry(c, nb, 0)) :
                     c \in 1 .. (MaxCost + 1), nb \in Neighbors}

UpdInit ==
    /\ upd_calls \in [HandlerThreads ->
                        [neighbor : Neighbors, value : ReportedCosts,
                         pc : {"called"}, ret : {FALSE}]]
    /\ upd_start = table

\* HandlerUpdate with the entry read before _lock is taken: the comparison
\* sees the table as it was before the other calls wrote
HandlerUpdateUnlocked(i) ==
    /\ i \in DOMAIN upd_calls
    /\ upd_calls[i].pc = "called"
    /\ table' = IF UpdateResult(upd_start, upd_calls[i].value)
                THEN (host_fp :> PheromoneEntry(upd_calls[i].value + 1,
                                                upd_calls[i].neighbor, now))
                ELSE table
    /\ upd_calls' = [upd_calls EXCEPT
                        ![i].pc = "returned",
                        ![i].ret = UpdateResult(upd_start, upd_calls[i].value)]
    /\ nodeCall' = NodeCall("update", upd_calls[i].neighbor, upd_calls[i].value,
                            UpdateResult(upd_start, upd_calls[i].value))
    /\ lastReport' = <<upd_calls[i].neighbor, upd_calls[i].value>>
    /\ UNCHANGED <<self_fp, now, upd_start>>

\* update(neighbor, value) of handler thread i runs to its return
HandlerUpdate(i) ==
    /\ i \in DOMAIN upd_calls
    /\ upd_calls[i].pc = "called"
    /\ table' = UpdateTable(table, upd_calls[i].neighbor, upd_calls[i].value, now)
    /\ upd_calls' = [upd_calls EXCEPT
                        ![i].pc = "returned",
                        ![i].ret = UpdateResult(table, upd_calls[i].value)]
    /\ nodeCall' = NodeCall("update", upd_calls[i].neighbor, upd_calls[i].value,
                            UpdateResult(table, upd_calls[i].value))
    /\ lastReport' = <<upd_calls[i].neighbor, upd_calls[i].value>>
    /\ UNCHANGED <<self_fp, now, upd_start>>

(***************************************************************************)
(* The connection cache under the clock (transport.py): send_file takes    *)
(* the peer's connection from _get_conn, which touches it or opens and     *)
(* caches a new one, and then transfers for as long as sftp.put takes; the *)
(* reaper wakes every REAP_INTERVAL seconds.  One sender; connecting       *)
(* succeeds (its failure is part of SpecConn).                             *)
(***************************************************************************)
ReapCall(op, closed) == [op |-> op, closed |-> closed]

ReapInit ==
    /\ reap_now = 0
    /\ reap_cache = << >>
    /\ reap_busy = None
    /\ reap_call = ReapCall("init", {})

\* _CachedConn(client) and touch(): last_used = time.time()
CachedConn(t) == [last_used |-> t]

\* _CachedConn.idle
Idle(c, t) == t - c.last_used

\* send_file(peer, ...) up to the start of sftp.put: _get_conn returns the
\* cached connection, touched, or a new one, cached
SendFileBegin(peer) ==
    /\ reap_busy = None
    /\ reap_cache' = [p \in DOMAIN reap_cache \cup {peer} |->
                         IF p = peer THEN CachedConn(reap_now) ELSE reap_cache[p]]
    /\ reap_busy' = peer
    /\ reap_call' = ReapCall("send", {})
    /\ UNCHANGED reap_now

\* sftp.put returns or raises: send_file returns; after an exception (the
\* connection was closed under the transfer) _drop_conn pops the peer's entry
SendFileEnd ==
    /\ reap_busy # None
    /\ reap_call' = ReapCall(IF reap_busy \in DOMAIN reap_cache THEN "sent" ELSE "failed", {})
    /\ reap_busy' = None
    /\ UNCHANGED <<reap_now, reap_cache>>

\* the entries a pass of the reaper closes
StaleConns(cache, t) == {p \in DOMAIN cache : Idle(cache[p], t) > CONN_TTL}

\* one pass of _conn_reaper: the stale entries are closed and deleted
ReaperPass ==
    /\ LET stale == StaleConns(reap_cache, reap_now)
       IN  /\ reap_cache' = [p \in DOMAIN reap_cache \ stale |-> reap_cache[p]]
           /\ reap_call' = ReapCall("reap", stale)
    /\ UNCHANGED <<reap_now, reap_busy>>

\* time passes: one sleep of the reaper
ReapTick ==
    /\ reap_now + REAP_INTERVAL <= MaxReapTime
    /\ reap_now' = reap_now + REAP_INTERVAL
    /\ reap_call' = ReapCall("tick", {})
    /\ UNCHANGED <<reap_cache, reap_busy>>

(***************************************************************************)
(* The scan thread (mailbag.py _scan_loop): a round is _scan_and_send; an   *)
(* exception that _scan_and_send does not catch leaves the loop, and the    *)
(* thread is over.  With the send function of the transport (send_file      *)
(* catches what its transfer raises) the statement of a round that is under *)
(* no try is _total_chunks(fp) in the discovery loop.                       *)
(***************************************************************************)
ScanThreadInit == scan_thread = "running"

\* a round of _scan_loop that is carried through
ScanLoopRound(hop) ==
    /\ scan_thread = "running"
    /\ ScanAndSend(hop)
    /\ UNCHANGED scan_thread

\* a round of _scan_loop in which the k-th file of the listing, a new one, is
\* removed after _file_id has read it: _total_chunks raises FileNotFoundError
\* out of _scan_and_send; the files listed before it are queued, nothing is
\* sent
ScanVanish(hop) ==
    /\ scan_thread = "running"
    /\ self_fp # host_fp
    /\ \E order \in Listings(outbox) : \E k \in DOMAIN order :
          LET f   == order[k]
              pre == Discover(SubSeq(order, 1, k - 1),
                              [states |-> states, dir |-> stateDir, log |-> << >>])
          IN  /\ ~f.name.hidden
              /\ FileId(f.content) \notin JobIds(pre.states)
              /\ states' = pre.states
              /\ stateDir' = pre.dir
              /\ outbox' = outbox \ {f}
    /\ sendLog' = << >>
    /\ mbCall' = MbCall("scan", hop, << >>)
    /\ scan_thread' = "dead"
    /\ UNCHANGED <<appReceived, finished, staging>>

(***************************************************************************)
(* The receiving side of the mailbag (mailbag.py receive_fragment and       *)
(* _assemble) for one file.  A fragment is named by its index; the output  *)
(* file is the sequence of the fragments written, by position.  A step is  *)
(* a section under _lock or one pass of the loop of _assemble.             *)
(***************************************************************************)
RcvThreads == 1 .. (MaxFragments + 1)

NoJob == 0

\* a position of the output file that no write has filled
Hole == "hole"

RcvIdleCall == [pc |-> "idle", idx |-> 0, fs |-> NoJob, k |-> 0, raised |-> FALSE]

RcvIdle ==
    /\ rcv_total = 1
    /\ rcv_heap = << >>
    /\ rcv_job = NoJob
    /\ rcv_frags = {}
    /\ rcv_out = [exists |-> FALSE, bytes |-> << >>]
    /\ rcv_thr = [i \in RcvThreads |-> RcvIdleCall]
    /\ rcv_runs = 0
    /\ rcv_arrived = {}

RcvInit ==
    /\ rcv_total \in 1 .. MaxFragments
    /\ rcv_heap = << >>
    /\ rcv_job = NoJob
    /\ rcv_frags = {}
    /\ rcv_out = [exists |-> FALSE, bytes |-> << >>]
    /\ rcv_thr = [i \in RcvThreads |-> RcvIdleCall]
    /\ rcv_runs = 0
    /\ rcv_arrived = {}

\* no receive_fragment call is under way
RcvQuiet == \A i \in RcvThreads : rcv_thr[i].pc \in {"idle", "returned"}

\* RcvDone that holds as soon as one fragment is recorded
RcvDoneEarly(fs) == Cardinality(rcv_heap[fs].sent) >= 1

\* FragmentState.done of the object a thread holds
RcvDone(fs) == Cardinality(rcv_heap[fs].sent) = rcv_heap[fs].total

\* the fragment file idx has been written to disk and a connection handler
\* calls receive_fragment(file_id, idx, total, frag_path)
ReceiveFragmentCall(i, idx) ==
    /\ rcv_thr[i].pc = "idle"
    /\ idx \in 0 .. (rcv_total - 1)
    /\ rcv_frags' = rcv_frags \cup {idx}
    /\ rcv_arrived' = rcv_arrived \cup {idx}
    /\ rcv_thr' = [rcv_thr EXCEPT ![i] = [RcvIdleCall EXCEPT !.pc = "record", !.idx = idx]]
    /\ UNCHANGED <<rcv_total, rcv_heap, rcv_job, rcv_out, rcv_runs>>

\* receive_fragment, the section under _lock: the job is created if the key
\* is not in _states, the index is added to its sent set
ReceiveFragmentRecord(i) ==
    /\ rcv_thr[i].pc = "record"
    /\ LET heap == IF rcv_job = NoJob
                   THEN Append(rcv_heap, [total |-> rcv_total, sent |-> {}])
                   ELSE rcv_heap
           fs   == IF rcv_job = NoJob THEN Len(heap) ELSE rcv_job
       IN  /\ rcv_heap' = [heap EXCEPT ![fs].sent = @ \cup {rcv_thr[i].idx}]
           /\ rcv_job' = fs
           /\ rcv_thr' = [rcv_thr EXCEPT ![i].pc = "check", ![i].fs = fs]
    /\ UNCHANGED <<rcv_total, rcv_frags, rcv_out, rcv_runs, rcv_arrived>>

\* receive_fragment: if fs.done: self._assemble(fs), outside the lock
ReceiveFragmentCheck(i) ==
    /\ rcv_thr[i].pc = "check"
    /\ rcv_thr' = [rcv_thr EXCEPT ![i].pc = IF RcvDone(rcv_thr[i].fs) THEN "open"
                                             ELSE "returned"]
    /\ UNCHANGED <<rcv_total, rcv_heap, rcv_job, rcv_frags, rcv_out, rcv_runs,
                   rcv_arrived>>

\* _assemble: open(out_path, 'wb') creates the output file or cuts it to
\* nothing
AssembleOpen(i) ==
    /\ rcv_thr[i].pc = "open"
    /\ rcv_out' = [exists |-> TRUE, bytes |-> << >>]
    /\ rcv_runs' = rcv_runs + 1
    /\ rcv_thr' = [rcv_thr EXCEPT ![i].pc = "copy", ![i].k = 0]
    /\ UNCHANGED <<rcv_total, rcv_heap, rcv_job, rcv_frags, rcv_arrived>>

\* out.write at position k of a handle of its own: the positions between the
\* end of the file and k stay holes
WriteAt(bytes, k, x) ==
    [j \in 1 .. (IF Len(bytes) > k + 1 THEN Len(bytes) ELSE k + 1) |->
        IF j = k + 1 THEN x ELSE IF j <= Len(bytes) THEN bytes[j] ELSE Hole]

\* _assemble, one pass of the loop over range(fs.total): the fragment is
\* read, written to the output and unlinked; a missing fragment raises, and
\* the handler of _assemble returns
AssembleCopy(i) ==
    LET k == rcv_thr[i].k
    IN  /\ rcv_thr[i].pc = "copy"
        /\ k < rcv_heap[rcv_thr[i].fs].total
        /\ IF k \in rcv_frags
           THEN /\ rcv_out' = [rcv_out EXCEPT !.bytes = WriteAt(@, k, k)]
                /\ rcv_frags' = rcv_frags \ {k}
                /\ rcv_thr' = [rcv_thr EXCEPT ![i].k = k + 1]
           ELSE /\ rcv_thr' = [rcv_thr EXCEPT ![i].pc = "returned", ![i].raised = TRUE]
                /\ UNCHANGED <<rcv_out, rcv_frags>>
        /\ UNCHANGED <<rcv_total, rcv_heap, rcv_job, rcv_runs, rcv_arrived>>

\* _assemble, after the loop: the output is closed and the key is popped
\* from _states under _lock
AssemblePop(i) ==
    /\ rcv_thr[i].pc = "copy"
    /\ rcv_thr[i].k = rcv_heap[rcv_thr[i].fs].total
    /\ rcv_job' = NoJob
    /\ rcv_thr' = [rcv_thr EXCEPT ![i].pc = "returned"]
    /\ UNCHANGED <<rcv_total, rcv_heap, rcv_frags, rcv_out, rcv_runs, rcv_arrived>>

(***************************************************************************)
(* Connections through a jump peer (transport.py _get_conn and              *)
(* _make_proxy_sock): peer c is configured with via b, peer b is reached    *)
(* directly.  One sender; a send_file call is one step.                     *)
(***************************************************************************)
ViaConnIds == 1 .. MaxViaConns

\* receivers.json: info.get('via')
ViaOf(peer) == IF peer = "c" THEN "b" ELSE None

NoViaConn == [state |-> "unused", peer |-> None, over |-> NoClient]

\* what the network does to a call: does client.connect to a peer reached
\* directly succeed, does open_channel on the jump connection succeed, does
\* client.connect over the channel succeed, does the transfer succeed
Fates == [direct : BOOLEAN, channel : BOOLEAN, tunnel : BOOLEAN, transfer : BOOLEAN]

ViaInit ==
    /\ via_cache = [p \in Peers |-> NoClient]
    /\ via_conn = [c \in ViaConnIds |-> NoViaConn]
    /\ via_call = [peer |-> None, ret |-> FALSE, had |-> FALSE, jump |-> NoClient,
                   channel |-> FALSE, opened |-> {}]

\* cached.client.get_transport().is_active()
IsActive(conns, c) == c # NoClient /\ conns[c].state = "active"

\* connection c ends in state how; the channels opened on it end with it,
\* so the connections that run over it are dead
EndConn(conns, c, how) ==
    [d \in ViaConnIds |->
        IF d = c THEN [conns[d] EXCEPT !.state = how]
        ELSE IF conns[d].state = "active" /\ conns[d].over = c
             THEN [conns[d] EXCEPT !.state = "dead"]
             ELSE conns[d]]

FreshId(conns) ==
    CHOOSE c \in ViaConnIds :
        conns[c].state = "unused" /\ \A d \in ViaConnIds : d < c => conns[d].state # "unused"

\* _get_conn, first section: the cached connection if it is active; a dead
\* one is closed and deleted
DropDead(st, peer) ==
    IF st.cache[peer] = NoClient THEN st
    ELSE [cache |-> [st.cache EXCEPT ![peer] = NoClient],
          conns |-> EndConn(st.conns, st.cache[peer], "closed")]

\* client.connect succeeded: the new connection is cached
OpenConn(st, peer, over) ==
    LET c == FreshId(st.conns)
    IN  [client |-> c,
         cache  |-> [st.cache EXCEPT ![peer] = c],
         conns  |-> [st.conns EXCEPT ![c] = [state |-> "active", peer |-> peer,
                                             over |-> over]],
         jump |-> over, channel |-> over # NoClient]

NoConn2(st, jump, channel) ==
    [client |-> NoClient, cache |-> st.cache, conns |-> st.conns,
     jump |-> jump, channel |-> channel]

\* _get_conn that connects to every peer directly, whatever its via field
RECURSIVE GetConnDirect(_, _, _)
GetConnDirect(peer, st, fate) ==
    IF IsActive(st.conns, st.cache[peer])
    THEN [client |-> st.cache[peer], cache |-> st.cache, conns |-> st.conns,
          jump |-> NoClient, channel |-> FALSE]
    ELSE LET st1 == DropDead(st, peer)
         IN  IF fate.direct THEN OpenConn(st1, peer, NoClient)
             ELSE NoConn2(st1, NoClient, FALSE)

\* _get_conn(peer): the client returned (NoClient for None), the cache and
\* the connections after the call; for a peer with via, _make_proxy_sock
\* calls _get_conn(via) and opens a channel on what it returns
RECURSIVE GetConn(_, _, _)
GetConn(peer, st, fate) ==
    IF IsActive(st.conns, st.cache[peer])
    THEN [client |-> st.cache[peer], cache |-> st.cache, conns |-> st.conns,
          jump |-> NoClient, channel |-> FALSE]
    ELSE LET st1 == DropDead(st, peer)
         IN  IF ViaOf(peer) = None
             THEN IF fate.direct THEN OpenConn(st1, peer, NoClient)
                  ELSE NoConn2(st1, NoClient, FALSE)
             ELSE LET j   == GetConn(ViaOf(peer), st1, fate)
                      st2 == [cache |-> j.cache, conns |-> j.conns]
                  IN  IF j.client = NoClient THEN NoConn2(st2, NoClient, FALSE)
                      ELSE IF ~fate.channel THEN NoConn2(st2, j.client, FALSE)
                      ELSE IF ~fate.tunnel THEN NoConn2(st2, j.client, TRUE)
                      ELSE OpenConn(st2, peer, j.client)

\* send_file(peer, ...): _get_conn, the transfer, _drop_conn if it raises
SendFileVia(peer, fate) ==
    LET st  == [cache |-> via_cache, conns |-> via_conn]
        had == IsActive(via_conn, via_cache[peer])
        g   == GetConn(peer, st, fate)
        ok  == g.client # NoClient /\ fate.transfer
        dropped == g.client # NoClient /\ ~fate.transfer
    IN  /\ Cardinality({c \in ViaConnIds : via_conn[c].state = "unused"}) >= 2
        /\ via_cache' = IF dropped THEN [g.cache EXCEPT ![peer] = NoClient] ELSE g.cache
        /\ via_conn' = IF dropped /\ g.cache[peer] # NoClient
                       THEN EndConn(g.conns, g.cache[peer], "closed")
                       ELSE g.conns
        /\ via_call' = [peer |-> peer, ret |-> ok, had |-> had, jump |-> g.jump,
                        channel |-> g.channel,
                        opened |-> {c \in ViaConnIds :
                                       via_conn[c].state = "unused"
                                       /\ g.conns[c].state # "unused"}]

\* a connection dies
ViaBreak(c) ==
    /\ via_conn[c].state = "active"
    /\ via_conn' = EndConn(via_conn, c, "dead")
    /\ UNCHANGED <<via_cache, via_call>>

\* the part of the state that no specification but its own moves
AuxIdle == NetInit /\ UpdIdle /\ ReapInit /\ ScanThreadInit /\ RcvIdle /\ ViaInit

InitNode == NodeInit /\ TransportInit /\ MailbagInit /\ BridgeInit /\ keep_original /\ ChunkIdle /\ ConnInit /\ AuxIdle

NextNode ==
    \/ \E nb \in Neighbors, c \in ReportedCosts :
          Update(nb, c) /\ UNCHANGED <<transportVars, mailbagVars, bridgeVars, chunkVars, connVars, auxVars>>
    \/ Decay /\ UNCHANGED <<transportVars, mailbagVars, bridgeVars, chunkVars, connVars, auxVars>>
    \/ Tick /\ UNCHANGED <<transportVars, mailbagVars, bridgeVars, chunkVars, connVars, auxVars>>

SpecNode == InitNode /\ [][NextNode]_vars

\* A relay whose current next hop is heard at every broadcast interval with
\* the cost it reported before: the interval passes and update() handles the
\* heartbeat
HeartbeatRound ==
    /\ now + BROADCAST_INTERVAL <= MaxTime
    /\ now' = now + BROADCAST_INTERVAL
    /\ LET hop == get_next_hop(host_fp)
       IN  IF hop = None
           THEN /\ nodeCall' = NodeCall("tick", None, 0, FALSE)
                /\ UNCHANGED <<table, lastReport>>
           ELSE LET c == table[host_fp].value - 1
                IN  /\ table' = UpdateTable(table, hop, c, now')
                    /\ nodeCall' = NodeCall("update", hop, c, UpdateResult(table, c))
                    /\ lastReport' = <<hop, c>>
    /\ UNCHANGED self_fp

\* a heartbeat of a neighbor other than the current next hop
OtherReport(neighbor_fp, reported_value) ==
    /\ neighbor_fp # get_next_hop(host_fp)
    /\ Update(neighbor_fp, reported_value)

InitHeartbeat == InitNode /\ self_fp # host_fp

NextHeartbeat ==
    \/ HeartbeatRound /\ UNCHANGED <<transportVars, mailbagVars, bridgeVars, chunkVars, connVars, auxVars>>
    \/ \E nb \in Neighbors, c \in ReportedCosts :
          OtherReport(nb, c) /\ UNCHANGED <<transportVars, mailbagVars, bridgeVars, chunkVars, connVars, auxVars>>
    \/ Decay /\ UNCHANGED <<transportVars, mailbagVars, bridgeVars, chunkVars, connVars, auxVars>>

SpecHeartbeat == InitHeartbeat /\ [][NextHeartbeat]_vars

InitTransport == NodeInit /\ TransportInit /\ MailbagInit /\ BridgeInit /\ keep_original /\ ChunkIdle /\ ConnInit /\ AuxIdle

NextTransport ==
    \/ RegisterHandler("pheromone")
    \/ \E conn \in Conns : HandleConn(conn)

SpecTransport == InitTransport /\ [][NextTransport]_vars

InitMailbag == NodeInit /\ TransportInit /\ MailbagInit /\ BridgeInit /\ keep_original /\ ChunkIdle /\ ConnInit /\ AuxIdle

NextMailbag ==
    \/ \E hop \in NextHops : ScanAndSend(hop) /\ UNCHANGED <<nodeVars, transportVars, bridgeVars, chunkVars, connVars, auxVars>>
    \/ PutPackage /\ UNCHANGED <<nodeVars, transportVars, bridgeVars, chunkVars, connVars, auxVars>>
    \/ \E f \in StagedFiles : StageFile(f) /\ UNCHANGED <<nodeVars, transportVars, bridgeVars, chunkVars, connVars, auxVars>>
    \/ \E f \in staging : DropFile(f) /\ UNCHANGED <<nodeVars, transportVars, bridgeVars, chunkVars, connVars, auxVars>>
    \/ \E f \in outbox : RemoveFile(f) /\ UNCHANGED <<nodeVars, transportVars, bridgeVars, chunkVars, connVars, auxVars>>
    \/ Restart /\ UNCHANGED <<transportVars, bridgeVars, chunkVars, connVars, auxVars>>
    \/ ScanTick /\ UNCHANGED <<transportVars, bridgeVars, chunkVars, connVars, auxVars>>

SpecMailbag == InitMailbag /\ [][NextMailbag]_vars

\* The mailbag of a relay whose next hop is always resolved and whose sends
\* all succeed; _scan_loop runs a round every SCAN_INTERVAL while the node runs
InitDelivery == InitMailbag /\ self_fp # host_fp

DeliveryScan ==
    \E hop \in Neighbors : ReliableScan(hop) /\ UNCHANGED <<nodeVars, transportVars, bridgeVars, chunkVars, connVars, auxVars>>

NextDelivery ==
    \/ DeliveryScan
    \/ PutPackage /\ UNCHANGED <<nodeVars, transportVars, bridgeVars, chunkVars, connVars, auxVars>>
    \/ \E f \in StagedFiles : StageFile(f) /\ UNCHANGED <<nodeVars, transportVars, bridgeVars, chunkVars, connVars, auxVars>>
    \/ \E f \in staging : DropFile(f) /\ UNCHANGED <<nodeVars, transportVars, bridgeVars, chunkVars, connVars, auxVars>>
    \/ \E f \in outbox : RemoveFile(f) /\ UNCHANGED <<nodeVars, transportVars, bridgeVars, chunkVars, connVars, auxVars>>
    \/ Restart /\ UNCHANGED <<transportVars, bridgeVars, chunkVars, connVars, auxVars>>
    \/ ScanTick /\ UNCHANGED <<transportVars, bridgeVars, chunkVars, connVars, auxVars>>

\* The sink's mailbag receiving one file: every fragment is handed to
\* receive_fragment once, by connection handlers that run concurrently
InitReceive ==
    /\ NodeInit /\ self_fp = host_fp
    /\ TransportInit /\ MailbagInit /\ BridgeInit /\ keep_original /\ ChunkIdle /\ ConnInit
    /\ NetInit /\ UpdIdle /\ ReapInit /\ ScanThreadInit /\ RcvInit /\ ViaInit

NextReceive ==
    \/ \E i \in RcvThreads, idx \in 0 .. (MaxFragments - 1) :
          /\ idx \notin rcv_arrived
          /\ ReceiveFragmentCall(i, idx)
          /\ UNCHANGED <<nodeVars, transportVars, mailbagVars, bridgeVars, chunkVars, connVars, auxButRcv>>
    \/ \E i \in RcvThreads : ReceiveFragmentRecord(i) /\ UNCHANGED <<nodeVars, transportVars, mailbagVars, bridgeVars, chunkVars, connVars, auxButRcv>>
    \/ \E i \in RcvThreads : ReceiveFragmentCheck(i) /\ UNCHANGED <<nodeVars, transportVars, mailbagVars, bridgeVars, chunkVars, connVars, auxButRcv>>
    \/ \E i \in RcvThreads : AssembleOpen(i) /\ UNCHANGED <<nodeVars, transportVars, mailbagVars, bridgeVars, chunkVars, connVars, auxButRcv>>
    \/ \E i \in RcvThreads : AssembleCopy(i) /\ UNCHANGED <<nodeVars, transportVars, mailbagVars, bridgeVars, chunkVars, connVars, auxButRcv>>
    \/ \E i \in RcvThreads : AssemblePop(i) /\ UNCHANGED <<nodeVars, transportVars, mailbagVars, bridgeVars, chunkVars, connVars, auxButRcv>>

SpecReceive == InitReceive /\ [][NextReceive]_vars

\* The sink's mailbag receiving one file, one receive_fragment call at a
\* time: the fragments arrive in any order, and may arrive again
InitArrivals == InitReceive

NextArrivals ==
    \/ \E i \in RcvThreads, idx \in 0 .. (MaxFragments - 1) :
          /\ RcvQuiet
          /\ ReceiveFragmentCall(i, idx)
          /\ UNCHANGED <<nodeVars, transportVars, mailbagVars, bridgeVars, chunkVars, connVars, auxButRcv>>
    \/ \E i \in RcvThreads : ReceiveFragmentRecord(i) /\ UNCHANGED <<nodeVars, transportVars, mailbagVars, bridgeVars, chunkVars, connVars, auxButRcv>>
    \/ \E i \in RcvThreads : ReceiveFragmentCheck(i) /\ UNCHANGED <<nodeVars, transportVars, mailbagVars, bridgeVars, chunkVars, connVars, auxButRcv>>
    \/ \E i \in RcvThreads : AssembleOpen(i) /\ UNCHANGED <<nodeVars, transportVars, mailbagVars, bridgeVars, chunkVars, connVars, auxButRcv>>
    \/ \E i \in RcvThreads : AssembleCopy(i) /\ UNCHANGED <<nodeVars, transportVars, mailbagVars, bridgeVars, chunkVars, connVars, auxButRcv>>
    \/ \E i \in RcvThreads : AssemblePop(i) /\ UNCHANGED <<nodeVars, transportVars, mailbagVars, bridgeVars, chunkVars, connVars, auxButRcv>>

SpecArrivals == InitArrivals /\ [][NextArrivals]_vars

\* The transport of a relay that reaches peer c through peer b
InitVia == InitNode /\ self_fp # host_fp

NextVia ==
    \/ \E peer \in Peers, fate \in Fates :
          SendFileVia(peer, fate) /\ UNCHANGED <<nodeVars, transportVars, mailbagVars, bridgeVars, chunkVars, connVars, auxButVia>>
    \/ \E c \in ViaConnIds :
          ViaBreak(c) /\ UNCHANGED <<nodeVars, transportVars, mailbagVars, bridgeVars, chunkVars, connVars, auxButVia>>

SpecVia == InitVia /\ [][NextVia]_vars

\* The nodes of the network with heartbeats that arrive after a delay
InitDelay == InitNode /\ self_fp = host_fp

NextDelay ==
    \/ \E n \in NetNodes, m \in NetNodes :
          NetSend(n, m) /\ UNCHANGED <<nodeVars, transportVars, mailbagVars, bridgeVars, chunkVars, connVars, auxButNet>>
    \/ \E msg \in net_flight :
          NetDeliver(msg) /\ UNCHANGED <<nodeVars, transportVars, mailbagVars, bridgeVars, chunkVars, connVars, auxButNet>>
    \/ \E n \in NetNodes : NetDecay(n) /\ UNCHANGED <<nodeVars, transportVars, mailbagVars, bridgeVars, chunkVars, connVars, auxButNet>>
    \/ NetTick /\ UNCHANGED <<nodeVars, transportVars, mailbagVars, bridgeVars, chunkVars, connVars, auxButNet>>

SpecDelay == InitDelay /\ [][NextDelay]_vars

\* The mailbag of a relay whose scan thread runs while deliver packs
InitPack == InitMailbag /\ self_fp # host_fp

NextPack ==
    \/ PackOpen /\ UNCHANGED <<nodeVars, transportVars, chunkVars, connVars, auxVars>>
    \/ PackClose /\ UNCHANGED <<nodeVars, transportVars, chunkVars, connVars, auxVars>>
    \/ \E hop \in NextHops : ScanAndSend(hop) /\ UNCHANGED <<nodeVars, transportVars, bridgeVars, chunkVars, connVars, auxVars>>
    \/ \E f \in outbox : RemoveFile(f) /\ UNCHANGED <<nodeVars, transportVars, bridgeVars, chunkVars, connVars, auxVars>>
    \/ ScanTick /\ UNCHANGED <<transportVars, bridgeVars, chunkVars, connVars, auxVars>>

SpecPack == InitPack /\ [][NextPack]_vars

\* The mailbag of a relay with its scan thread
InitScanLoop == InitMailbag /\ self_fp # host_fp

NextScanLoop ==
    \/ \E hop \in NextHops : ScanLoopRound(hop) /\ UNCHANGED <<nodeVars, transportVars, bridgeVars, chunkVars, connVars, auxButScan>>
    \/ \E hop \in NextHops : ScanVanish(hop) /\ UNCHANGED <<nodeVars, transportVars, bridgeVars, chunkVars, connVars, auxButScan>>
    \/ PutPackage /\ UNCHANGED <<nodeVars, transportVars, bridgeVars, chunkVars, connVars, auxVars>>
    \/ \E f \in StagedFiles : StageFile(f) /\ UNCHANGED <<nodeVars, transportVars, bridgeVars, chunkVars, connVars, auxVars>>
    \/ \E f \in staging : DropFile(f) /\ UNCHANGED <<nodeVars, transportVars, bridgeVars, chunkVars, connVars, auxVars>>
    \/ \E f \in outbox : RemoveFile(f) /\ UNCHANGED <<nodeVars, transportVars, bridgeVars, chunkVars, connVars, auxVars>>
    \/ ScanTick /\ UNCHANGED <<transportVars, bridgeVars, chunkVars, connVars, auxVars>>

SpecScanLoop == InitScanLoop /\ [][NextScanLoop]_vars

\* The mailbag of a node long enough for a job to use up its retries: the
\* archive of the bridge, rounds of the scan loop, restarts, the clock
RetryTick ==
    /\ now + RETRY_DELAY <= MaxRetryTime
    /\ now' = now + RETRY_DELAY
    /\ mbCall' = MbCall("other", None, << >>)
    /\ sendLog' = << >>
    /\ UNCHANGED <<self_fp, table, nodeCall, lastReport>>
    /\ UNCHANGED <<outbox, states, stateDir, appReceived, finished, staging>>

NextRetry ==
    \/ \E hop \in NextHops : ScanAndSend(hop) /\ UNCHANGED <<nodeVars, transportVars, bridgeVars, chunkVars, connVars, auxVars>>
    \/ PutPackage /\ UNCHANGED <<nodeVars, transportVars, bridgeVars, chunkVars, connVars, auxVars>>
    \/ Restart /\ UNCHANGED <<transportVars, bridgeVars, chunkVars, connVars, auxVars>>
    \/ RetryTick /\ UNCHANGED <<transportVars, bridgeVars, chunkVars, connVars, auxVars>>

SpecRetry == InitMailbag /\ [][NextRetry]_vars

\* a step that is a round of the scan loop
ScanStep == mbCall'.op = "scan"

\* _scan_loop never stops while the node runs: a round is always possible (the
\* callback may name either neighbour), so weak fairness of the round,
\* WF_vars(DeliveryScan), is that rounds happen again and again
SpecDelivery == InitDelivery /\ [][NextDelivery]_vars /\ []<><<ScanStep>>_vars

InitBridge == NodeInit /\ TransportInit /\ MailbagInit /\ BridgeInit /\ ChunkIdle /\ ConnInit /\ AuxIdle

NextBridge ==
    \/ \E n \in ExportNames :
          WriteExportFile(n) /\ UNCHANGED <<nodeVars, transportVars, mailbagVars, chunkVars, connVars, auxVars>>
    \/ DeliverCollect /\ UNCHANGED <<nodeVars, transportVars, mailbagVars, chunkVars, connVars, auxVars>>
    \/ DeliverFinish /\ UNCHANGED <<nodeVars, transportVars, mailbagVars, chunkVars, connVars, auxVars>>
    \/ WallTick /\ UNCHANGED <<nodeVars, transportVars, mailbagVars, chunkVars, connVars, auxVars>>

SpecBridge == InitBridge /\ [][NextBridge]_vars

InitChunk == NodeInit /\ TransportInit /\ MailbagInit /\ BridgeInit /\ keep_original /\ ChunkInit /\ ConnInit /\ AuxIdle

NextChunk ==
    \/ SendFragment /\ UNCHANGED <<nodeVars, transportVars, mailbagVars, bridgeVars, connVars, auxVars>>
    \/ AssembleFile /\ UNCHANGED <<nodeVars, transportVars, mailbagVars, bridgeVars, connVars, auxVars>>

SpecChunk == InitChunk /\ [][NextChunk]_vars

InitConn == NodeInit /\ TransportInit /\ MailbagInit /\ BridgeInit /\ keep_original /\ ChunkIdle /\ ConnInit /\ AuxIdle /\ self_fp # host_fp

NextConn ==
    \/ Start /\ UNCHANGED <<nodeVars, transportVars, mailbagVars, bridgeVars, chunkVars, auxVars>>
    \/ \E t \in Loops : LoopWake(t) /\ UNCHANGED <<nodeVars, transportVars, mailbagVars, bridgeVars, chunkVars, auxVars>>
    \/ \E t \in Senders : GetConnCached(t) /\ UNCHANGED <<nodeVars, transportVars, mailbagVars, bridgeVars, chunkVars, auxVars>>
    \/ \E t \in Senders : Connect(t) /\ UNCHANGED <<nodeVars, transportVars, mailbagVars, bridgeVars, chunkVars, auxVars>>
    \/ \E t \in Senders : CacheConn(t) /\ UNCHANGED <<nodeVars, transportVars, mailbagVars, bridgeVars, chunkVars, auxVars>>
    \/ \E t \in Senders : Transfer(t) /\ UNCHANGED <<nodeVars, transportVars, mailbagVars, bridgeVars, chunkVars, auxVars>>
    \/ \E t \in Senders : DropConn(t) /\ UNCHANGED <<nodeVars, transportVars, mailbagVars, bridgeVars, chunkVars, auxVars>>
    \/ \E t \in Senders : CloseDropped(t) /\ UNCHANGED <<nodeVars, transportVars, mailbagVars, bridgeVars, chunkVars, auxVars>>
    \/ \E t \in Senders : NextCall(t) /\ UNCHANGED <<nodeVars, transportVars, mailbagVars, bridgeVars, chunkVars, auxVars>>
    \/ \E t \in Senders : EndRound(t) /\ UNCHANGED <<nodeVars, transportVars, mailbagVars, bridgeVars, chunkVars, auxVars>>
    \/ ReapPass /\ UNCHANGED <<nodeVars, transportVars, mailbagVars, bridgeVars, chunkVars, auxVars>>
    \/ \E c \in ConnIds : ConnBreak(c) /\ UNCHANGED <<nodeVars, transportVars, mailbagVars, bridgeVars, chunkVars, auxVars>>
    \/ StopLoops /\ UNCHANGED <<nodeVars, transportVars, mailbagVars, bridgeVars, chunkVars, auxVars>>
    \/ StopTransportClear /\ UNCHANGED <<nodeVars, transportVars, mailbagVars, bridgeVars, chunkVars, auxVars>>

SpecConn == InitConn /\ [][NextConn]_vars

InitNet == InitNode /\ self_fp = host_fp

NextNet ==
    \/ \E n \in NetNodes, m \in NetNodes :
          NetHeartbeat(n, m) /\ UNCHANGED <<nodeVars, transportVars, mailbagVars, bridgeVars, chunkVars, connVars, auxButNet>>
    \/ \E n \in NetNodes : NetDecay(n) /\ UNCHANGED <<nodeVars, transportVars, mailbagVars, bridgeVars, chunkVars, connVars, auxButNet>>
    \/ NetTick /\ UNCHANGED <<nodeVars, transportVars, mailbagVars, bridgeVars, chunkVars, connVars, auxButNet>>

SpecNet == InitNet /\ [][NextNet]_vars

InitHandlers ==
    /\ self_fp = "a"
    /\ table \in StartTables
    /\ now = 0
    /\ lastReport = <<None, 0>>
    /\ nodeCall = NodeCall("init", None, 0, FALSE)
    /\ TransportInit /\ MailbagInit /\ BridgeInit /\ keep_original /\ ChunkIdle /\ ConnInit
    /\ NetInit /\ UpdInit /\ ReapInit /\ ScanThreadInit /\ RcvIdle /\ ViaInit

NextHandlers ==
    \E i \in HandlerThreads :
        HandlerUpdate(i) /\ UNCHANGED <<transportVars, mailbagVars, bridgeVars, chunkVars, connVars, auxButUpd>>

SpecHandlers == InitHandlers /\ [][NextHandlers]_vars

InitReaper == InitNode /\ self_fp # host_fp

NextReaper ==
    \/ \E peer \in Peers :
          SendFileBegin(peer) /\ UNCHANGED <<nodeVars, transportVars, mailbagVars, bridgeVars, chunkVars, connVars, auxButReap>>
    \/ SendFileEnd /\ UNCHANGED <<nodeVars, transportVars, mailbagVars, bridgeVars, chunkVars, connVars, auxButReap>>
    \/ ReaperPass /\ UNCHANGED <<nodeVars, transportVars, mailbagVars, bridgeVars, chunkVars, connVars, auxButReap>>
    \/ ReapTick /\ UNCHANGED <<nodeVars, transportVars, mailbagVars, bridgeVars, chunkVars, connVars, auxButReap>>

SpecReaper == InitReaper /\ [][NextReaper]_vars

(***************************************************************************)
(* Claims about PostmareNode (SpecNode)                                    *)
(***************************************************************************)
PheromoneOf(tbl, target) ==
    IF target \in DOMAIN tbl THEN tbl[target].value ELSE INF

\* C1: on a node that is the sink itself, whatever update calls and aging
\* passes have happened, get_pheromone_value(sink) is 0 and
\* get_next_hop(sink) is none.
C1_SinkFixed ==
    self_fp = host_fp =>
        get_pheromone_value(host_fp) = 0 /\ get_next_hop(host_fp) = None

\* C2: on a non-sink node, update(neighbor, c) returns true and stores
\* {c+1, neighbor, now} exactly when c is finite and either no entry exists
\* or c+1 is strictly less than the stored cost; otherwise it returns false
\* and leaves the table (cost, next hop, timestamp) as it was.
C2_UpdateRule ==
    [][ (nodeCall'.op = "update" /\ self_fp # host_fp) =>
         LET c    == nodeCall'.value
             nb   == nodeCall'.neighbor
             take == c < INF /\ (host_fp \notin DOMAIN table
                                  \/ c + 1 < table[host_fp].value)
         IN  /\ nodeCall'.ret = take
             /\ take => /\ host_fp \in DOMAIN table'
                         /\ table'[host_fp] = PheromoneEntry(c + 1, nb, now)
             /\ ~take => table' = table ]_vars

\* C2 witness: a non-sink node has replaced an existing, costlier entry
C2_Witness ==
    /\ self_fp # host_fp
    /\ nodeCall.op = "update" /\ nodeCall.ret
    /\ nodeCall.before < INF
    /\ table[host_fp].value = nodeCall.value + 1
    /\ table[host_fp].next_hop = nodeCall.neighbor

\* C3: on a non-sink node an update call never raises the stored cost to the
\* sink; the cost rises only in an aging pass, and then to +infinity.
C3_CostNonIncreasing ==
    [][ self_fp # host_fp =>
         /\ nodeCall'.op = "update" =>
                PheromoneOf(table', host_fp) <= PheromoneOf(table, host_fp)
         /\ PheromoneOf(table', host_fp) > PheromoneOf(table, host_fp) =>
                nodeCall'.op = "decay" /\ PheromoneOf(table', host_fp) = INF ]_vars

\* C3 witness: an update on a non-sink node was offered a costlier route than
\* the stored one, and the stored cost did not rise
C3_Witness ==
    /\ self_fp # host_fp
    /\ nodeCall.op = "update"
    /\ nodeCall.value < INF
    /\ nodeCall.value + 1 > nodeCall.before
    /\ get_pheromone_value(host_fp) = nodeCall.before

\* C4: a report equal to the previous one (same neighbor, same cost, no aging
\* pass in between) returns false and leaves the table as it was; and a
\* report whose candidate c+1 equals the stored cost never replaces the
\* entry, whichever neighbor sent it.
C4_TieStable ==
    [][ nodeCall'.op = "update" =>
         /\ lastReport = <<nodeCall'.neighbor, nodeCall'.value>> =>
                ~nodeCall'.ret /\ table' = table
         /\ (host_fp \in DOMAIN table /\ nodeCall'.value < INF
                /\ nodeCall'.value + 1 = table[host_fp].value) =>
                ~nodeCall'.ret /\ table' = table ]_vars

\* C4 witness: a tie reported by a neighbor other than the next hop, at a
\* later time than the entry was written, and the entry was kept
C4_Witness ==
    /\ nodeCall.op = "update" /\ ~nodeCall.ret
    /\ host_fp \in DOMAIN table
    /\ nodeCall.value + 1 = table[host_fp].value
    /\ self_fp # host_fp
    /\ nodeCall.neighbor # table[host_fp].next_hop
    /\ table[host_fp].timestamp < now

(***************************************************************************)
(* Claims about PostmareTransport (SpecTransport)                          *)
(***************************************************************************)
\* the peer authenticated with an allow-listed key and the envelope's
\* signature is that key's, over the data carried
Legitimate(conn) ==
    /\ Fingerprint(conn.key) \in DOMAIN known_keys
    /\ conn.kind = "json"
    /\ conn.packet.signature.key = known_keys[Fingerprint(conn.key)]
    /\ conn.packet.signature.payload = conn.packet.data

C5_ResumeAfterRestart ==
    [][ /\ mbCall'.op = "restart" =>
            \A fid \in {id \in DOMAIN mbCall'.persisted : mbCall'.persisted[id] # {}} :
                /\ fid \in JobIds(states')
                /\ JobOf(states', fid).sent = mbCall'.persisted[fid]
                /\ {pending_indices(JobOf(states', fid))[i] :
                        i \in DOMAIN pending_indices(JobOf(states', fid))}
                   = (0 .. (JobOf(states', fid).total - 1)) \ mbCall'.persisted[fid]
        /\ (mbCall.op = "restart" /\ mbCall'.op = "scan") =>
            \A i \in DOMAIN sendLog' :
                sendLog'[i].file_id \in DOMAIN mbCall.persisted =>
                    sendLog'[i].idx \notin mbCall.persisted[sendLog'[i].file_id]
      ]_vars

\* C6: a job with all chunks sent is terminal: the scan round that finds it
\* done deletes its record and drops it from memory, and no later scan round
\* sends a chunk of that file, even while the file stays in the mailbag
\* directory.
C6_DoneIsTerminal ==
    [][ (mbCall'.op = "scan" /\ self_fp # host_fp) =>
            /\ \A fid \in JobIds(states) :
                  Done(JobOf(states, fid)) =>
                      fid \notin JobIds(states') /\ fid \notin DOMAIN stateDir'
            /\ \A i \in DOMAIN sendLog' : sendLog'[i].file_id \notin finished
      ]_vars

\* C8: a file completely received by a node that is not the sink is moved into
\* the node's own mailbag directory, and the node's next scan round creates a
\* job for it and sends it to the node's current next hop toward the sink.
C8_RelayForwards ==
    [][ self_fp # host_fp =>
            /\ \A f \in staging' \ staging : f \in outbox'
            /\ mbCall'.op = "scan" =>
                 \A f \in outbox :
                    (/\ ~f.name.hidden
                     /\ FileId(f.content) \notin JobIds(states)
                     /\ FileId(f.content) \notin finished
                     /\ mbCall'.hop # None) =>
                        \E i \in DOMAIN sendLog' :
                            /\ sendLog'[i].file_id = FileId(f.content)
                            /\ sendLog'[i].hop = mbCall'.hop
      ]_vars


\* the recognized-extension files of the export directory whose modification
\* time is later than t
NewerThan(t) == {n \in DOMAIN scanDir : n.suffix \in Exts /\ scanDir[n] > t}

\* C9: a deliver call made while no export file was written since the last
\* deliver call returned gives none, creates no archive and leaves the
\* low-water mark as it is; a call gives none only when no recognized file is
\* newer than the mark, and a call that gives a package has written it.
C9_SecondDeliverNone ==
    [][ bridgeCall'.op = "deliver" =>
            /\ quiet => /\ bridgeCall'.ret = NoArchive
                        /\ archives' = archives
                        /\ marker' = marker
            /\ bridgeCall'.ret = NoArchive => NewerThan(lowWater) = {}
            /\ bridgeCall'.ret # NoArchive =>
                  /\ bridgeCall'.ret \in DOMAIN archives'
                  /\ archives'[bridgeCall'.ret] = bridgeCall'.files
                  /\ bridgeCall'.files # {}
      ]_vars

\* a second call returned none after a first call packaged a file that is
\* still in the export directory, unmodified
C9_Witness ==
    /\ bridgeCall.op = "deliver"
    /\ bridgeCall.ret = NoArchive
    /\ marker # NoMarker
    /\ archives # << >>
    /\ \E n \in DOMAIN scanDir :
          n.suffix \in Exts /\ n \in DOMAIN packedAt /\ packedAt[n] = scanDir[n]

\* C10: each deliver call collects exactly the recognized-extension files of
\* the export directory whose modification time is later than the mark the
\* last packaging call left (0 before any), packs what it collected, and
\* packs no file that was packaged before and has the modification time it
\* had then.
C10_PackagesExactlyNewer ==
    [][ /\ (bridgePc = "idle" /\ bridgeCall'.op \in {"collect", "deliver"}) =>
              bridgeCall'.files = IF scanDirExists THEN NewerThan(lowWater) ELSE {}
        /\ (bridgePc = "collected" /\ bridgeCall'.op = "deliver") =>
              /\ bridgeCall'.files = new_files
              /\ archives'[bridgeCall'.ret] = new_files
              /\ \A n \in new_files :
                    ~(n \in DOMAIN packedAt /\ packedAt[n] = scanDir[n])
      ]_vars

\* a call packaged a new file and left out a file packaged before
C10_Witness ==
    /\ bridgeCall.op = "deliver"
    /\ bridgeCall.ret # NoArchive
    /\ bridgeCall.files # {}
    /\ keep_original
    /\ \E n \in DOMAIN scanDir \ bridgeCall.files :
          n.suffix \in Exts /\ n \in DOMAIN packedAt /\ packedAt[n] = scanDir[n]


\* the export files written after deliver collected its list: recognized
\* suffix, newer than the mark the call read, not in the list
WrittenDuringDeliver ==
    {n \in DOMAIN scanDir :
        /\ n.suffix \in Exts
        /\ n \notin new_files
        /\ scanDir[n] > ReadMarker(marker)}

\* C26: an export file with a recognized suffix written while deliver runs,
\* after the call collected its list and before it advanced the low-water
\* mark, is still newer than the mark when the call returns, so that a later
\* deliver packages it: the mark never skips a file for good.
C26_WrittenDuringDeliverKept ==
    [][(bridgePc = "collected" /\ bridgePc' = "idle") =>
          \A n \in WrittenDuringDeliver :
              /\ n \in DOMAIN scanDir'
              /\ scanDir'[n] > ReadMarker(marker')]_vars

(***************************************************************************)
(* Claims about chunking (SpecChunk)                                       *)
(***************************************************************************)

\* ceil(s / k): the least n with n * k >= s
CeilDiv(s, k) == CHOOSE n \in 0 .. s : n * k >= s /\ (n - 1) * k < s

\* the bytes [lo, hi) of a byte string
Slice(bytes, lo, hi) == [j \in 1 .. (hi - lo) |-> bytes[lo + j]]

\* chunk i of a byte string cut in chunks of k bytes
SliceOfChunk(bytes, i, k) ==
    Slice(bytes, i * k,
          IF (i + 1) * k < Len(bytes) THEN (i + 1) * k ELSE Len(bytes))

\* C11, as stated: for every file size s >= 0 and chunk size k the chunk count
\* is ceil(s / k), chunk i holds the bytes [i*k, min((i+1)*k, s)), and the
\* chunks concatenated in ascending index order are the original bytes.
C11_ChunkCountIsCeil ==
    /\ ChunkCount(Len(fileBytes), chunkSize) = CeilDiv(Len(fileBytes), chunkSize)
    /\ \A i \in DOMAIN frags : frags[i] = SliceOfChunk(fileBytes, i, chunkSize)
    /\ assembled.written => assembled.bytes = fileBytes

\* C11, amended: the chunk count is ceil(s / k) for s > 0 and 1 for the empty
\* file; chunk i holds the bytes [i*k, min((i+1)*k, s)), and the chunks
\* concatenated in ascending index order are the original bytes.
C11_ChunkRoundTrip ==
    /\ ChunkCount(Len(fileBytes), chunkSize) =
          IF Len(fileBytes) = 0 THEN 1 ELSE CeilDiv(Len(fileBytes), chunkSize)
    /\ \A i \in DOMAIN frags : frags[i] = SliceOfChunk(fileBytes, i, chunkSize)
    /\ assembled.written => assembled.bytes = fileBytes

\* a file of several chunks, the last one short, was reassembled
C11_Witness ==
    /\ assembled.written
    /\ Len(fileBytes) > chunkSize
    /\ Len(fileBytes) % chunkSize # 0


(***************************************************************************)
(* Claims about the scan round (SpecMailbag)                               *)
(***************************************************************************)

\* the job of a file id as a scan round meets it: the job in memory, or the
\* fresh job the discovery creates
JobAtScan(fid) ==
    IF fid \in JobIds(states) THEN JobOf(states, fid)
    ELSE FragmentState(None, fid, TotalChunks(ContentOf(fid)))

\* the file ids a scan round works on: the jobs in memory and the non-hidden
\* files of the mailbag directory
IdsAtScan == JobIds(states) \cup IdsIn({f \in outbox : ~f.name.hidden})

\* pending, below the retry limit and not within the retry delay of a failure
Eligible(fs) ==
    /\ ~Done(fs)
    /\ fs.retries < MAX_RETRIES
    /\ ~(now - fs.last_try < RETRY_DELAY /\ fs.retries > 0)

\* the round tried the job: a send of one of its chunks to the hop, or a
\* retry counted for a chunk that could not be read
TriedIn(fid, hop) ==
    \/ \E i \in DOMAIN sendLog' :
          sendLog'[i].file_id = fid /\ sendLog'[i].hop = hop
    \/ /\ fid \in JobIds(states')
       /\ JobOf(states', fid).retries = JobAtScan(fid).retries + 1

\* a round without a next hop sends nothing and changes no job's retry
\* counter, last-attempt time or sent set
NoRouteFrame ==
    (mbCall'.op = "scan" /\ mbCall'.hop = None /\ self_fp # host_fp) =>
        /\ sendLog' = << >>
        /\ \A fid \in IdsAtScan :
              IF fid \in JobIds(states')
              THEN /\ JobOf(states', fid).sent = JobAtScan(fid).sent
                   /\ JobOf(states', fid).retries = JobAtScan(fid).retries
                   /\ JobOf(states', fid).last_try = JobAtScan(fid).last_try
              ELSE Done(JobAtScan(fid))

\* C12, as stated: a round without a next hop sends nothing and leaves every
\* job's retry counter, last-attempt time and sent set unchanged; once a route
\* appears, the next round sends every file whose job is not done to that hop.
C12_RouteAppearsSends ==
    [][ /\ NoRouteFrame
        /\ (/\ mbCall.op = "scan" /\ mbCall.hop = None
            /\ mbCall'.op = "scan" /\ mbCall'.hop # None
            /\ self_fp # host_fp) =>
              \A fid \in IdsAtScan :
                  ~Done(JobAtScan(fid)) => TriedIn(fid, mbCall'.hop)
      ]_vars

\* C12, amended: a round without a next hop sends nothing and leaves every
\* job's retry counter, last-attempt time and sent set unchanged; a round with
\* a next hop sends only to that hop, and tries every job that has chunks
\* pending, is below the retry limit and is not within the retry delay of a
\* failure, and no other job.
C12_NoRouteNoPenalty ==
    [][ /\ NoRouteFrame
        /\ (mbCall'.op = "scan" /\ mbCall'.hop # None /\ self_fp # host_fp) =>
              /\ \A i \in DOMAIN sendLog' : sendLog'[i].hop = mbCall'.hop
              /\ \A fid \in IdsAtScan :
                    IF Eligible(JobAtScan(fid))
                    THEN TriedIn(fid, mbCall'.hop)
                    ELSE \A i \in DOMAIN sendLog' : sendLog'[i].file_id # fid
      ]_vars

\* a round without a next hop left a job with a failure as it was, and the
\* file is still waiting
C12_Witness ==
    /\ mbCall.op = "scan"
    /\ mbCall.hop = None
    /\ self_fp # host_fp
    /\ \E i \in DOMAIN states :
          states[i].retries > 0 /\ ~Done(states[i]) /\ now - states[i].last_try >= RETRY_DELAY


\* C13: on the sink a scan round creates no job and sends nothing, whatever
\* files are in the mailbag directory and whatever the next-hop callback
\* returns.
C13_SinkNeverSends ==
    [][ (mbCall'.op = "scan" /\ self_fp = host_fp) =>
            /\ states' = states
            /\ stateDir' = stateDir
            /\ sendLog' = << >>
      ]_vars

\* the sink ran a round with a file in its mailbag directory and a next hop
C13_Witness ==
    /\ mbCall.op = "scan"
    /\ mbCall.hop # None
    /\ self_fp = host_fp
    /\ \E f \in outbox : ~f.name.hidden
    /\ states = << >>


\* the files that can lie in the mailbag directory under a visible name
VisibleFiles == {PackageFile} \cup StagedFiles

\* the job of file f is done with every chunk sent
FullySent(f) ==
    \E i \in DOMAIN states :
        /\ states[i].file_id = FileId(f.content)
        /\ Done(states[i])
        /\ states[i].sent = 0 .. (TotalChunks(f.content) - 1)

Abandoned(fs) == fs.retries >= MAX_RETRIES /\ ~Done(fs)

\* C15: abandoned is terminal: in every later scan round and restart no send
\* is attempted for the job, the job stays abandoned, and neither its
\* persisted record nor its file is deleted.
C15_AbandonedTerminal ==
    [][ \A i \in DOMAIN states :
          Abandoned(states[i]) =>
            LET fid == states[i].file_id
            IN  /\ \A k \in DOMAIN sendLog' : sendLog'[k].file_id # fid
                /\ \E j \in DOMAIN states' :
                      states'[j].file_id = fid /\ Abandoned(states'[j])
                /\ fid \in DOMAIN stateDir => fid \in DOMAIN stateDir'
                /\ \A f \in outbox : FileId(f.content) = fid => f \in outbox'
      ]_vars


\* C17 as stated: on any node, sink or not, get_next_hop(sink) is none
\* exactly when get_pheromone_value(sink) is +infinity.
C17_NoHopIffInfiniteAnyNode ==
    get_next_hop(host_fp) = None <=> get_pheromone_value(host_fp) = INF

\* C17: on every node that is not the sink, get_next_hop(sink) is none
\* exactly when get_pheromone_value(sink) is +infinity.
C17_NoHopIffInfinite ==
    self_fp # host_fp =>
        (get_next_hop(host_fp) = None <=> get_pheromone_value(host_fp) = INF)

\* a relay holds a route: a next hop and a finite cost
C17_Witness ==
    /\ self_fp # host_fp
    /\ nodeCall.op = "update"
    /\ get_next_hop(host_fp) \in Neighbors
    /\ get_pheromone_value(host_fp) < INF

\* the age of the sink entry at the time of the step
SinkEntryAge == now - table[host_fp].timestamp

\* C18: on a non-sink node an aging pass deletes the sink entry exactly when
\* the entry was written more than 120 s ago; the entry goes only in an aging
\* pass; while it is gone the cost is +infinity and the next hop none; and it
\* comes back only by a report of a finite cost.
C18_AgingDeletesExactlyOld ==
    [][ self_fp # host_fp =>
          /\ (nodeCall'.op = "decay" /\ host_fp \in DOMAIN table) =>
                (host_fp \notin DOMAIN table' <=> SinkEntryAge > PHEROMONE_MAX_AGE)
          /\ (host_fp \in DOMAIN table /\ host_fp \notin DOMAIN table') =>
                nodeCall'.op = "decay"
          /\ host_fp \notin DOMAIN table' =>
                /\ get_pheromone_value(host_fp)' = INF
                /\ get_next_hop(host_fp)' = None
          /\ (host_fp \notin DOMAIN table /\ host_fp \in DOMAIN table') =>
                /\ nodeCall'.op = "update"
                /\ nodeCall'.value < INF
      ]_vars

\* an aging pass has just deleted the route of a relay
C18_Witness ==
    /\ self_fp # host_fp
    /\ nodeCall.op = "decay"
    /\ nodeCall.before < INF
    /\ host_fp \notin DOMAIN table

\* the sent set the job of file id fid had before the step (empty for a job
\* the step creates)
SentBefore(fid) ==
    IF fid \in JobIds(states) THEN JobOf(states, fid).sent ELSE {}

AllIndices(fs) == 0 .. (fs.total - 1)

\* C19: while the process runs (every step but a restart), an index enters a
\* job's sent set only in a round in which a send of that chunk returned
\* success, no index of the sent set is passed to send again for that job, no
\* index is sent twice in a round, and a job is done, and finished by a round,
\* only with every index 0..total-1 in its sent set.
C19_SentOnlyAfterSuccess ==
    [][ mbCall'.op # "restart" =>
          /\ mbCall'.op # "scan" => states' = states
          /\ \A i \in DOMAIN states' :
                LET fs == states'[i]
                IN  /\ \A idx \in fs.sent \ SentBefore(fs.file_id) :
                          \E k \in DOMAIN sendLog' :
                             /\ sendLog'[k].file_id = fs.file_id
                             /\ sendLog'[k].idx = idx
                             /\ sendLog'[k].ok
                    /\ Done(fs) => fs.sent = AllIndices(fs)
          /\ \A k \in DOMAIN sendLog' :
                /\ sendLog'[k].idx \notin SentBefore(sendLog'[k].file_id)
                /\ \A l \in DOMAIN sendLog' :
                      (l # k /\ sendLog'[l].file_id = sendLog'[k].file_id)
                          => sendLog'[l].idx # sendLog'[k].idx
          /\ \A i \in DOMAIN states :
                states[i].file_id \notin JobIds(states') =>
                    states[i].sent = AllIndices(states[i])
      ]_vars

\* a round has sent chunk 1 alone for a job whose chunk 0 was sent in an
\* earlier round
C19_Witness ==
    /\ mbCall.op = "scan"
    /\ Len(sendLog) = 1
    /\ sendLog[1].idx = 1
    /\ sendLog[1].ok
    /\ \E i \in DOMAIN states : states[i].sent = {0, 1}

\* C21: on a relay whose current next hop keeps reporting the same cost at
\* every broadcast interval, an aging pass never removes the route: the next
\* hop stays that neighbor.
C21_HeardRouteNotAged ==
    [][ (get_next_hop(host_fp) # None /\ nodeCall'.op = "decay") =>
            get_next_hop(host_fp)' = get_next_hop(host_fp) ]_vars

\* the node reached from n after k next hops, None where the chain ends
RECURSIVE HopAfter(_, _)
HopAfter(n, k) ==
    IF k = 0 THEN n
    ELSE LET m == HopAfter(n, k - 1)
         IN  IF m \in NetNodes THEN StoredHop(net_table[m]) ELSE None

\* C22: in a network of nodes that exchange heartbeats and age their
\* entries, the next-hop pointers never form a cycle: following next hops
\* from a node never comes back to that node.
C22_NoRoutingCycle ==
    \A n \in NetNodes : \A k \in 1 .. Cardinality(NetNodes) : HopAfter(n, k) # n

\* the concurrent update() calls have all returned
AllReturned == \A i \in DOMAIN upd_calls : upd_calls[i].pc = "returned"

\* the costs on offer: the one stored at the start and every finite report + 1
OfferedCosts ==
    {StoredCost(upd_start)} \cup
    {upd_calls[i].value + 1 : i \in {j \in DOMAIN upd_calls : upd_calls[j].value < INF}}

LeastOffered == CHOOSE c \in OfferedCosts : \A d \in OfferedCosts : c <= d

\* the neighbors whose report produced the least cost
LeastReporters ==
    {upd_calls[i].neighbor :
        i \in {j \in DOMAIN upd_calls : upd_calls[j].value + 1 = LeastOffered}}
    \cup (IF StoredCost(upd_start) = LeastOffered
          THEN {StoredHop(upd_start)} ELSE {})

\* C23: whatever the interleaving of concurrent update() calls on a relay
\* (no aging in between), once all have returned the stored cost is the
\* least of the initial cost and every reported cost + 1, and the next hop
\* is a neighbor whose report produced that least cost.
C23_ConcurrentUpdatesKeepMin ==
    (upd_calls # << >> /\ AllReturned) =>
        /\ StoredCost(table) = LeastOffered
        /\ LeastOffered < INF => StoredHop(table) \in LeastReporters

\* two calls both wrote: the worse report was applied first, the better after
C23_Witness ==
    /\ upd_calls # << >> /\ AllReturned
    /\ \E i, j \in DOMAIN upd_calls :
          /\ upd_calls[i].value < upd_calls[j].value
          /\ upd_calls[j].value < INF
          /\ upd_calls[i].neighbor # upd_calls[j].neighbor
          /\ upd_calls[i].ret /\ upd_calls[j].ret
          /\ StoredHop(table) = upd_calls[i].neighbor

\* the sends of the round just run that belong to a job of several chunks
ChunkSends ==
    {p \in DOMAIN sendLog : TotalChunks(ContentOf(sendLog[p].file_id)) > 1}

RetriesBefore(fid) == IF fid \in JobIds(states) THEN JobOf(states, fid).retries ELSE 0

\* C25: a scan round adds to a job's retry count exactly one for its failed
\* chunk attempt (send_file returned false, or a local I/O error), and the
\* count is in the job's record on disk when the round ends, so that a
\* restart sees it.
C25_FailureCountedAndPersisted ==
    [][mbCall'.op = "scan" =>
          \A fid \in JobIds(states') :
              LET fs == JobOf(states', fid)
              IN  /\ fs.retries \in {RetriesBefore(fid), RetriesBefore(fid) + 1}
                  /\ (\E p \in DOMAIN sendLog' :
                         sendLog'[p].file_id = fid /\ ~sendLog'[p].ok)
                        => fs.retries = RetriesBefore(fid) + 1
                  /\ fid \in DOMAIN stateDir'
                  /\ stateDir'[fid].retries = fs.retries]_vars

\* C29: a failure while one job is processed in a scan round (its send
\* fails, its file has vanished, a local I/O error) does not stop the scan
\* loop: the thread is there to run the later rounds.
C29_ScanLoopSurvives == scan_thread = "running"

\* job fid was attempted in the step: send_file was called for it, or its
\* attempt ended in a local error and was counted
AttemptedInStep(fid) ==
    \/ \E p \in DOMAIN sendLog' : sendLog'[p].file_id = fid
    \/ /\ fid \in JobIds(states')
       /\ JobOf(states', fid).retries > RetriesBefore(fid)

\* C30: in a scan round, a job that has failed at least once is attempted
\* only if at least RETRY_DELAY seconds have passed since its last attempt,
\* and a job that has never failed (and is not done) is attempted whenever
\* the round resolves a next hop.
C30_BackoffThenRetry ==
    [][mbCall'.op = "scan" =>
          /\ \A i \in DOMAIN states :
                (states[i].retries > 0 /\ AttemptedInStep(states[i].file_id))
                    => now - states[i].last_try >= RETRY_DELAY
          /\ \A fid \in JobIds(states') :
                ( /\ mbCall'.hop # None
                  /\ RetriesBefore(fid) = 0
                  /\ fid \in JobIds(states) => ~Done(JobOf(states, fid)) )
                    => AttemptedInStep(fid)]_vars

\* a round with a next hop has passed over a job that failed earlier at the
\* same time: nothing was sent for it and its count is as recorded
C30_Witness ==
    /\ mbCall.op = "scan" /\ mbCall.hop # None
    /\ \E i \in DOMAIN states :
          /\ states[i].retries > 0
          /\ states[i].last_try = now
          /\ \A p \in DOMAIN sendLog : sendLog[p].file_id # states[i].file_id
          /\ states[i].file_id \in DOMAIN stateDir
          /\ stateDir[states[i].file_id].retries = states[i].retries

InIndexOrder(total) == [j \in 1 .. total |-> j - 1]

\* C32: when the fragments of one file are handed to receive_fragment by
\* concurrent handlers, reassembly runs once, and when the calls are over
\* the output holds every fragment once, in index order.
C32_AssembledExactlyOnce ==
    /\ rcv_runs <= 1
    /\ (RcvQuiet /\ rcv_arrived = 0 .. (rcv_total - 1)) =>
          /\ rcv_out.exists
          /\ rcv_out.bytes = InIndexOrder(rcv_total)

\* a run of _assemble is under way only with every index recorded
AssemblesOnlyWhenComplete ==
    \A i \in RcvThreads :
        rcv_thr[i].pc \in {"open", "copy"} =>
            rcv_heap[rcv_thr[i].fs].sent = 0 .. (rcv_total - 1)

\* a run of _assemble comes to its end in the step
AssembleReturns ==
    \E i \in RcvThreads : rcv_thr[i].pc = "copy" /\ rcv_thr'[i].pc = "returned"

\* C33: for any arrival order of a file's fragments, duplicates included, the
\* output is assembled only when every index 0..total-1 has been recorded;
\* when the assembly ends the output is the fragments in ascending index
\* order, and the fragment files and the file's reassembly state are gone.
C33_AssembleWhenComplete ==
    /\ []AssemblesOnlyWhenComplete
    /\ [][AssembleReturns =>
            /\ \A i \in RcvThreads : ~rcv_thr'[i].raised
            /\ rcv_out'.exists
            /\ rcv_out'.bytes = InIndexOrder(rcv_total)
            /\ rcv_frags' = {}
            /\ rcv_job' = NoJob]_vars

\* a file of two fragments was assembled after fragment 0 had arrived twice
C33_Witness ==
    /\ rcv_total = 2
    /\ \A i \in RcvThreads : rcv_thr[i].pc = "returned"
    /\ Cardinality({i \in RcvThreads : rcv_thr[i].idx = 0}) = 2
    /\ rcv_runs = 1
    /\ rcv_out.bytes = InIndexOrder(2)
    /\ rcv_job = NoJob

\* C34: a connection to a peer configured with via runs over a channel of a
\* connection to the via peer that was active when it was opened; when the
\* via connection or the channel cannot be had, no connection to the peer is
\* created or cached and send_file returns false.
C34_ViaOnlyThroughJump ==
    /\ \A c \in ViaConnIds :
          (via_conn[c].state # "unused" /\ ViaOf(via_conn[c].peer) # None) =>
              /\ via_conn[c].over # NoClient
              /\ via_conn[via_conn[c].over].peer = ViaOf(via_conn[c].peer)
              /\ via_conn[c].state = "active" => via_conn[via_conn[c].over].state = "active"
    /\ ( /\ via_call.peer # None
         /\ ViaOf(via_call.peer) # None
         /\ ~via_call.had
         /\ (via_call.jump = NoClient \/ ~via_call.channel) ) =>
              /\ ~via_call.ret
              /\ via_cache[via_call.peer] = NoClient
              /\ \A c \in via_call.opened : via_conn[c].peer # via_call.peer

\* a send to c opened a connection to b and one to c over it; and a send to
\* c whose channel could not be opened returned false
C34_Witness ==
    /\ via_call.peer = "c"
    /\ ~via_call.had
    /\ via_call.jump # NoClient
    /\ ~via_call.channel
    /\ ~via_call.ret
    /\ \E c \in ViaConnIds : via_conn[c].peer = "c" /\ via_conn[c].state # "unused"

\* C35: on the sink a completely received file is handed to the application
\* callback and is neither put into the mailbag directory nor sent on; on a
\* node that is not the sink the callback is never called.
C35_SinkCallbackOnly ==
    [][ /\ self_fp = host_fp =>
              \A f \in staging' \ staging :
                  /\ f \in appReceived'
                  /\ f \notin outbox'
                  /\ \A i \in DOMAIN sendLog' : sendLog'[i].file_id # FileId(f.content)
        /\ self_fp # host_fp => appReceived' = {}
      ]_vars

\* C37: a deliver call that returns a package leaves every package returned
\* by an earlier deliver call as it was: it writes an archive path no earlier
\* call wrote, also within one clock second.
C37_DeliverKeepsEarlierPackages ==
    [][ (bridgeCall'.op = "deliver" /\ bridgeCall'.ret # NoArchive) =>
            /\ bridgeCall'.ret \notin DOMAIN archives
            /\ \A a \in DOMAIN archives :
                  a \in DOMAIN archives' /\ archives'[a] = archives[a]
      ]_vars

\* C36: the archive deliver writes is seen by the scan of the mailbag
\* directory only once it is completely written: no scan round that runs while
\* deliver packs creates a job for the partially written archive or sends it.
C36_NoPartialArchiveScanned ==
    [][ (bridgePc = "packing" /\ mbCall'.op = "scan") =>
            /\ FileId(PartialPackage.content) \notin JobIds(states') \ JobIds(states)
            /\ \A i \in DOMAIN sendLog' :
                  sendLog'[i].file_id # FileId(PartialPackage.content)
      ]_vars

\* the nodes within k hops of the sink in the neighbor graph
RECURSIVE WithinHops(_)
WithinHops(k) ==
    IF k = 0 THEN {host_fp}
    ELSE WithinHops(k - 1) \cup
         {n \in NetNodes : \E m \in WithinHops(k - 1) : {n, m} \in NetLinks}

\* the true hop distance of node n to the sink
HopDistance(n) ==
    CHOOSE k \in 0 .. Cardinality(NetNodes) :
        n \in WithinHops(k) /\ (k = 0 \/ n \notin WithinHops(k - 1))

\* C38: in a static network where the sink reports 0 and a heartbeat carries
\* the sender's stored cost of the moment it was sent, every node's stored
\* cost to the sink is +infinity or at least the node's true hop distance,
\* whatever the delay of the heartbeats and the aging.
C38_CostAtLeastDistance ==
    \A n \in NetNodes :
        \/ StoredCost(net_table[n]) >= INF
        \/ StoredCost(net_table[n]) >= HopDistance(n)

\* a heartbeat sent earlier is still on its way after time has passed, the
\* farthest node has a route, and some node's cost is above its distance
C38_Witness ==
    /\ net_now > 0
    /\ net_flight # {}
    /\ StoredCost(net_table["a"]) < INF
    /\ \E n \in NetNodes :
          StoredCost(net_table[n]) < INF /\ StoredCost(net_table[n]) > HopDistance(n)

\* the route of a table to the sink: cost and next hop
RouteToSink(tbl) ==
    IF host_fp \in DOMAIN tbl
    THEN <<tbl[host_fp].value, tbl[host_fp].next_hop>>
    ELSE <<INF, None>>

\* C39: an inbound pheromone heartbeat whose target field names a destination
\* other than this node's sink leaves this node's route to its sink, cost and
\* next hop, as it was.
C39_OtherTargetKeepsRoute ==
    [][ ( /\ lastConn' # NoConn
          /\ lastConn'.packet.data.type = "pheromone"
          /\ lastConn'.packet.data.target # host_fp ) =>
              RouteToSink(table') = RouteToSink(table)
      ]_vars

(***************************************************************************)
(* Claims about the connection cache and the life cycle (SpecConn)         *)
(***************************************************************************)
\* send_file (the call of the scan thread) has returned False after an
\* exception in its try block
FailedTransfer ==
    /\ sendCall["scan"].pc = "returned"
    /\ sendCall["scan"].cause = "transfer"

\* C16 as stated: after send_file returned false because of a transfer error
\* the cache holds no connection for that peer.
C16_NoConnCachedAfterFailure ==
    FailedTransfer => conn_cache[sendCall["scan"].peer] = NoClient

\* a connection enters the cache only when the thread that has just opened
\* it caches it
OnlyNewCached ==
    \A p \in Peers :
        conn_cache'[p] \notin {NoClient, conn_cache[p]} =>
            \E t \in Senders : /\ sendCall[t].pc = "insert"
                               /\ sendCall[t].client = conn_cache'[p]

\* C16: send_file returns false when no connection is obtained or the
\* transfer fails; after a false return caused by a transfer error the
\* connection the transfer used is not in the cache, and only connections
\* opened later enter it, so the next send_file to that peer does not use it
\* (the cache may hold a connection another thread has opened meanwhile).
C16_FailedConnDropped ==
    /\ [](sendCall["scan"].pc = "returned" /\ sendCall["scan"].cause # "none"
            => ~sendCall["scan"].ret)
    /\ [](FailedTransfer =>
            \A p \in Peers : conn_cache[p] # sendCall["scan"].client)
    /\ [][OnlyNewCached]_vars

\* send_file has returned false after a transfer error on a connection that
\* _drop_conn popped and closed
C16_Witness ==
    /\ FailedTransfer
    /\ ~sendCall["scan"].ret
    /\ connState[sendCall["scan"].client] = "closed"
    /\ conn_cache[sendCall["scan"].peer] = NoClient


\* C20: once Postmare.stop has returned and every background loop has
\* finished its round in flight and exited, the connection cache is empty and
\* no outbound connection is open.
C20_StopReleasesConnections ==
    (stopPc = "returned" /\ \A t \in Loops : loopPc[t] = "exited") =>
        /\ \A p \in Peers : conn_cache[p] = NoClient
        /\ \A c \in ConnIds : connState[c] \in {"unused", "closed"}

\* no send_file or _send_json call is under way
NoCallUnderWay == \A t \in Senders : sendCall[t].pc \in {"none", "returned"}

\* C28: when two workers ask for a connection to the same peer at the same
\* time, then once their calls are over every connection that is open is the
\* one recorded in the cache for its peer (so at most one per peer): none
\* that was opened is left outside the cache without being closed.
C28_NoConnOutsideCache ==
    (stopPc = "no" /\ NoCallUnderWay) =>
        \A c \in ConnIds :
            connState[c] = "active" => \E p \in Peers : conn_cache[p] = c

\* C27: the reaper closes and evicts a cached connection only if it has
\* been idle for longer than the TTL, and never one on which a send_file
\* transfer is still in progress.
C27_ReaperSparesBusyConn ==
    reap_call.op = "reap" =>
        \A p \in reap_call.closed : p # reap_busy

====
